---- MODULE Spec2Model ----
(***************************************************************************)
(* Model of the Feeta backend's task-analysis pipeline                     *)
(* (app/services/ai_service.py, app/database/mongodb.py, app/api/tasks.py) *)
(* and of its OAuth, project and registration routes (app/api/github.py,   *)
(* app/api/slack.py, app/api/projects.py, app/api/auth.py).                *)
(*                                                                         *)
(* Requests are served by independent workers (Procs).  A worker's step    *)
(* ends at each outbound call (GitHub, the generative model, MongoDB); the *)
(* answer of the outside world is a nondeterministic input of the step     *)
(* that receives it.                                                       *)
(***************************************************************************)
EXTENDS Integers, Sequences, FiniteSets, TLC

VARIABLES
    repo_context_collection,   \* mongodb.py: db['repo_contexts'], keyed by repo_full_name
    cpc,                       \* per worker: position inside create_deep_project_context
    cloc,                      \* per worker: locals of create_deep_project_context
    cret,                      \* per worker: what its last create_deep_project_context call returned
    ctxCalls,                  \* number of create_deep_project_context calls started
    modelCalls,                \* per repository: generative-model requests issued for it
    returnedOk,                \* per repository: calls that returned a context
    afterOk,                   \* per worker: its current/last call began after a call for the same repo had returned a context
    ctxRequests,               \* per worker: outbound HTTP requests its current/last call issued
    task_sessions,             \* ai_service.py 18: the in-memory session map
    conversation_history_collection, \* mongodb.py: db['conversation_history'], per session_id the 'conversations' list
    now,                       \* the wall clock read by datetime.utcnow()
    tpc,                       \* per worker: position inside its task request
    tloc,                      \* per worker: locals of its task request
    taskRequests,              \* number of task requests started
    lastClassify,              \* per session id: the Classification of the most recent classify that succeeded
    failedSince,               \* per session id: a classify failed for it after the one in lastClassify
    overlapped,                \* per session id: two appends to it were in flight at once
    lastRead,                  \* per session id: the lists get_conversation_history returned last
    env,                       \* what the outside world sends in this specification: the number of
                               \* task requests and of deep-context calls, and the objects the
                               \* generative model may answer with
    call,                      \* a call of one of the pipeline's helper functions: its arguments,
                               \* and its result once it has returned
    cookie,                    \* per browser: Flask's session, which is the signed cookie the browser holds
    oauth_tokens,              \* per service and user id: the access token stored for the user
    opc,                       \* per worker: position inside its OAuth request
    oloc,                      \* per worker: locals of its OAuth request, its copy of the session among them
    oauth_states,              \* the states the install steps generated, in order, each with who asked
    callbacks,                 \* number of OAuth callbacks started
    stored,                    \* the token saves that took place: service, user id, state, browser
    succeeded,                 \* service and state of the callbacks whose success the browser has received
    acceptedAgain,             \* a callback passed the checks with a state in succeeded
    projects_collection,       \* mongodb.py: db['projects'], the ids of the projects
    messages_collection,       \* mongodb.py: db['messages'], per project_id the number of messages
    tasks_collection,          \* mongodb.py: db['tasks'], per project_id the number of tasks
    dpc,                       \* per worker: position inside delete_project
    dloc,                      \* per worker: locals of delete_project, and what it has deleted
    deletes,                   \* number of delete_project calls started
    users_collection,          \* auth.py: db['users'], the user documents
    rpc,                       \* per worker: position inside register
    rloc,                      \* per worker: locals of register
    registers                  \* number of register requests started

ctxVars == <<repo_context_collection, cpc, cloc, cret, ctxCalls, modelCalls,
             returnedOk, afterOk, ctxRequests>>

taskVars == <<task_sessions, conversation_history_collection, now, tpc, tloc,
              taskRequests, lastClassify, failedSince, overlapped, lastRead, env>>

callVars == <<call>>

oauthVars == <<cookie, oauth_tokens, opc, oloc, oauth_states, callbacks, stored, succeeded,
               acceptedAgain>>

projVars == <<projects_collection, messages_collection, tasks_collection, dpc, dloc,
              deletes>>

userVars == <<users_collection, rpc, rloc, registers>>

apiVars == <<oauthVars, projVars, userVars>>

vars == <<ctxVars, taskVars, callVars, apiVars>>

----------------------------------------------------------------------------
(* Bounds of the model *)

MaxContextCalls == 3
MaxTaskRequests == 3                  \* task requests of SpecTasks
MaxClassifyRequests == 1              \* task requests of SpecClassify
MaxHistoryRequests == 2               \* task requests of SpecHistory
MaxClock == 1                         \* last clock value
MaxPad == 1                           \* characters of text before / after a JSON object
MaxKeywordsGiven == 4                 \* keywords handed to search_codebase_for_keywords
MaxOutboundCalls == 1                 \* task requests, and deep-context calls, of SpecOutbound
MaxInstalls == 2                      \* OAuth install requests
MaxCallbacks == 2                     \* OAuth callback requests
MaxDocs == 1                          \* messages, and tasks, of one project
MaxDeletes == 2                       \* delete_project calls
MaxRegisters == 2                     \* register requests

Procs == {"w1", "w2"}                 \* request workers

----------------------------------------------------------------------------
(* Values *)

Repos == {"o/r1", "o/r2"}
Contexts == {"ctxA", "ctxB"}          \* parsed deep-analysis objects
FileLists == {<<>>, <<"f1">>}         \* blob paths of a tree response
Readmes == {"readme"}                 \* decoded README bodies
NoDoc == [absent |-> TRUE]
None == "None"

\* An answer of the generative-model endpoint, by the branch of the code it takes:
\*   exc           requests.post / response.json() raises (network error, timeout, non-JSON body)
\*   error         body carries 'error'
\*   no_candidates 'candidates' missing or empty
\*   blocked       no candidates, promptFeedback.blockReason present
\*   no_content    a candidate without content.parts[0].text (KeyError/IndexError)
\*   no_json       text without a {...} span
\*   bad_json      a {...} span that neither parse attempt accepts
\*   ok            text whose {...} span parses to obj
GeminiKinds == {"exc", "error", "no_candidates", "blocked", "no_content",
                "no_json", "bad_json", "ok"}

\* A faulty variant: an empty candidate list is taken for an answer.
GeminiRaises_EmptyCandidatesPass(kind) == kind \notin {"ok", "no_candidates"}

\* ai_service.py 172-191, 271-294, 427-447, 560-583: every branch but the last raises.
GeminiRaises(kind) == kind # "ok"

\* The answers that are failures of the model call: network error, error
\* response, empty candidate list, safety block, extraction failure.
FailureKinds == {"exc", "error", "no_candidates", "blocked", "no_content",
                 "no_json", "bad_json"}
Answered(kind) == IF kind \in FailureKinds THEN "failed" ELSE "ok"

----------------------------------------------------------------------------
(* parse_json_from_text, ai_service.py 36-71: texts are sequences of characters *)

WS == {" ", "\n"}                            \* what \s and the JSON grammar skip
QT == "\""

\* Parsed JSON values.  An object is the sequence of its (key, value) pairs in
\* the order of the text (the keys of the texts used here are distinct).
JStr(chars) == [t |-> "str", s |-> chars]
JArr(elems) == [t |-> "arr", e |-> elems]
JObj(members) == [t |-> "obj", m |-> members]
\* json.JSONDecodeError: pos is the 0-based index the decoder reports
JFail(pos, msg) == [t |-> "JSONDecodeError", pos |-> pos, msg |-> msg]
ParseFail(pos, msg) == [ok |-> FALSE, pos |-> pos, msg |-> msg]

RECURSIVE SkipWs(_, _)
SkipWs(text, i) == IF i <= Len(text) /\ text[i] \in WS THEN SkipWs(text, i + 1) ELSE i

\* The index of the quote that closes a string whose content starts at i; 0
\* when the text ends first; minus the index of a raw newline met first (an
\* invalid control character).
RECURSIVE CloseQuote(_, _)
CloseQuote(text, i) ==
    IF i > Len(text) THEN 0
    ELSE IF text[i] = "\n" THEN 0 - i
    ELSE IF text[i] = QT THEN i
    ELSE CloseQuote(text, i + 1)

\* The failure of a string that opens at index i and has no closing quote at j <= 0
StringFail(i, j) ==
    IF j = 0 THEN ParseFail(i - 1, "Unterminated string starting at")
    ELSE ParseFail((0 - j) - 1, "Invalid control character at")

RECURSIVE ParseValue(_, _)
RECURSIVE ParseMembers(_, _, _)
RECURSIVE ParseElems(_, _, _)

\* json.loads, one value that starts at index i: [ok, v, next], or the failure
ParseValue(text, i) ==
    IF i > Len(text) THEN ParseFail(i - 1, "Expecting value")
    ELSE IF text[i] = QT
    THEN LET j == CloseQuote(text, i + 1)
         IN IF j <= 0 THEN StringFail(i, j)
            ELSE [ok |-> TRUE, v |-> JStr(SubSeq(text, i + 1, j - 1)), next |-> j + 1]
    ELSE IF text[i] = "{"
    THEN LET k == SkipWs(text, i + 1)
         IN IF k <= Len(text) /\ text[k] = "}"
            THEN [ok |-> TRUE, v |-> JObj(<<>>), next |-> k + 1]
            ELSE ParseMembers(text, k, <<>>)
    ELSE IF text[i] = "["
    THEN LET k == SkipWs(text, i + 1)
         IN IF k <= Len(text) /\ text[k] = "]"
            THEN [ok |-> TRUE, v |-> JArr(<<>>), next |-> k + 1]
            ELSE ParseElems(text, k, <<>>)
    ELSE ParseFail(i - 1, "Expecting value")

\* the members of an object from index i on (after "{" or ",", whitespace
\* skipped): a member must follow
ParseMembers(text, i, acc) ==
    IF i > Len(text) \/ text[i] # QT
    THEN ParseFail(i - 1, "Expecting property name enclosed in double quotes")
    ELSE LET j == CloseQuote(text, i + 1)
             c == SkipWs(text, j + 1)
         IN IF j <= 0 THEN StringFail(i, j)
            ELSE IF c > Len(text) \/ text[c] # ":"
            THEN ParseFail(c - 1, "Expecting ':' delimiter")
            ELSE LET r == ParseValue(text, SkipWs(text, c + 1))
                 IN IF ~r.ok THEN r
                    ELSE LET e == SkipWs(text, r.next)
                             all == Append(acc, <<SubSeq(text, i + 1, j - 1), r.v>>)
                         IN IF e <= Len(text) /\ text[e] = "}"
                            THEN [ok |-> TRUE, v |-> JObj(all), next |-> e + 1]
                            ELSE IF e <= Len(text) /\ text[e] = ","
                            THEN ParseMembers(text, SkipWs(text, e + 1), all)
                            ELSE ParseFail(e - 1, "Expecting ',' delimiter")

\* the elements of an array from index i on (after "[" or ",", whitespace
\* skipped): a value must follow
ParseElems(text, i, acc) ==
    LET r == ParseValue(text, i)
    IN IF ~r.ok THEN r
       ELSE LET e == SkipWs(text, r.next)
                all == Append(acc, r.v)
            IN IF e <= Len(text) /\ text[e] = "]"
               THEN [ok |-> TRUE, v |-> JArr(all), next |-> e + 1]
               ELSE IF e <= Len(text) /\ text[e] = ","
               THEN ParseElems(text, SkipWs(text, e + 1), all)
               ELSE ParseFail(e - 1, "Expecting ',' delimiter")

\* json.loads(text): one value, nothing but whitespace before and after it
json_loads(text) ==
    LET r == ParseValue(text, SkipWs(text, 1))
    IN IF ~r.ok THEN JFail(r.pos, r.msg)
       ELSE IF SkipWs(text, r.next) <= Len(text)
       THEN JFail(SkipWs(text, r.next) - 1, "Extra data")
       ELSE r.v

\* Indices of a character in a text
IndicesOf(text, ch) == {i \in 1..Len(text) : text[i] = ch}
Least(S) == CHOOSE i \in S : \A j \in S : i <= j
Greatest(S) == CHOOSE i \in S : \A j \in S : j <= i
NoMatch == [found |-> FALSE]

\* A faulty variant: the span ends at the first "}" after its "{".
JsonMatch_NonGreedy(text) ==
    LET opens == IndicesOf(text, "{")
        closes == {j \in IndicesOf(text, "}") : opens # {} /\ j > Least(opens)}
    IN IF closes = {} THEN NoMatch
       ELSE [found |-> TRUE, s |-> SubSeq(text, Least(opens), Least(closes))]

\* 40: re.search(r'\{[\s\S]*\}', text): from the first "{" to the last "}" after it
JsonMatch(text) ==
    LET opens == IndicesOf(text, "{")
        closes == {j \in IndicesOf(text, "}") : opens # {} /\ j > Least(opens)}
    IN IF closes = {} THEN NoMatch
       ELSE [found |-> TRUE, s |-> SubSeq(text, Least(opens), Greatest(closes))]

\* 56: re.sub(r',(\s*[}\]])', r'\1', json_str): every comma whose next
\* non-whitespace character is "}" or "]" goes, wherever it stands
RECURSIVE RemoveTrailingCommas(_)
RemoveTrailingCommas(text) ==
    IF text = <<>> THEN <<>>
    ELSE LET k == SkipWs(text, 2)
         IN IF text[1] = "," /\ k <= Len(text) /\ text[k] \in {"}", "]"}
            THEN RemoveTrailingCommas(Tail(text))
            ELSE <<text[1]>> \o RemoveTrailingCommas(Tail(text))

\* 58: re.sub(r'//.*?\n', '\n', fixed_json): from "//" to the end of its line
RECURSIVE StripLineComments(_)
StripLineComments(text) ==
    IF text = <<>> THEN <<>>
    ELSE LET ends == {n \in IndicesOf(text, "\n") : n >= 3}
         IN IF Len(text) >= 2 /\ text[1] = "/" /\ text[2] = "/" /\ ends # {}
            THEN <<"\n">> \o StripLineComments(SubSeq(text, Least(ends) + 1, Len(text)))
            ELSE <<text[1]>> \o StripLineComments(Tail(text))

\* 59: re.sub(r'/\*.*?\*/', '', fixed_json, flags=re.DOTALL)
RECURSIVE StripBlockComments(_)
StripBlockComments(text) ==
    IF text = <<>> THEN <<>>
    ELSE LET ends == {n \in 3..(Len(text) - 1) : text[n] = "*" /\ text[n + 1] = "/"}
         IN IF Len(text) >= 2 /\ text[1] = "/" /\ text[2] = "*" /\ ends # {}
            THEN StripBlockComments(SubSeq(text, Least(ends) + 2, Len(text)))
            ELSE <<text[1]>> \o StripBlockComments(Tail(text))

\* 54-59: the repair pass
FixJson(json_str) == StripBlockComments(StripLineComments(RemoveTrailingCommas(json_str)))

\* 43, 68: the exception raised; `e` is the parse failure its message quotes
NoError == [t |-> "none"]
Raise(why, e) == [t |-> "raise", why |-> why, e |-> e]

\* A faulty variant: the exception quotes the failure of the second attempt.
Extract_QuotesSecondFailure(text) ==
    LET json_match == JsonMatch(text)
    IN IF ~json_match.found
       THEN [out |-> Raise("No JSON found", NoError), loads |-> <<>>]
       ELSE LET json_str == json_match.s
                first == json_loads(json_str)
            IN IF first.t # "JSONDecodeError"
               THEN [out |-> first, loads |-> <<json_str>>]
               ELSE LET fixed_json == FixJson(json_str)
                        second == json_loads(fixed_json)
                    IN [out |-> IF second.t # "JSONDecodeError" THEN second
                                ELSE Raise("Invalid JSON", second),
                        loads |-> <<json_str, fixed_json>>]

\* 36-71: parse_json_from_text.  out: the parsed object, or the exception
\* raised; loads: the texts handed to json.loads, in order.
Extract(text) ==
    LET json_match == JsonMatch(text)
    IN IF ~json_match.found
       THEN [out |-> Raise("No JSON found", NoError), loads |-> <<>>]
       ELSE LET json_str == json_match.s
                first == json_loads(json_str)
            IN IF first.t # "JSONDecodeError"
               THEN [out |-> first, loads |-> <<json_str>>]
               ELSE LET fixed_json == FixJson(json_str)
                        second == json_loads(fixed_json)
                    IN [out |-> IF second.t # "JSONDecodeError" THEN second
                                ELSE Raise("Invalid JSON", first),
                        loads |-> <<json_str, fixed_json>>]

\* 36-71: what parse_json_from_text returns or raises
parse_json_from_text(text) == Extract(text).out

----------------------------------------------------------------------------
(* search_codebase_for_keywords, ai_service.py 73-101 *)

KeywordLimit == 3                     \* 81: keywords[:3]
HitLimit == 5                         \* 87: data.get('items', [])[:5]

Take(seq, n) == SubSeq(seq, 1, IF Len(seq) < n THEN Len(seq) ELSE n)

\* 88-93: one entry of search_results ('url' is left out)
SearchResult(path, keyword) == [file |-> path, keyword |-> keyword]

\* A faulty variant: every item of the answer is taken.
HitsOf_AllItems(keyword, answer) ==
    [i \in 1..Len(answer.items) |-> SearchResult(answer.items[i], keyword)]

\* An answer of the code-search endpoint for one keyword:
\*   "200"    status 200 with the paths of data['items']
\*   "status" another status (rate limit, validation error, ...)
\*   "raises" requests.get or resp.json() raises (timeout, network error, bad body)
HitsOf(keyword, answer) ==
    LET items == Take(answer.items, HitLimit)
    IN [i \in 1..Len(items) |-> SearchResult(items[i], keyword)]

\* A faulty variant: a non-200 answer ends the loop.
RECURSIVE SearchLoop_StopsAtFailure(_, _, _)
SearchLoop_StopsAtFailure(keywords, answers, search_results) ==
    IF keywords = <<>>
    THEN [raised |-> FALSE, search_results |-> search_results, requests |-> <<>>]
    ELSE IF answers[1].kind = "raises"
    THEN [raised |-> TRUE, search_results |-> <<>>, requests |-> <<keywords[1]>>]
    ELSE IF answers[1].kind = "200"
    THEN LET rest == SearchLoop_StopsAtFailure(Tail(keywords), Tail(answers),
                        search_results \o HitsOf(keywords[1], answers[1]))
         IN [rest EXCEPT !.requests = <<keywords[1]>> \o @]
    ELSE [raised |-> FALSE, search_results |-> search_results,
          requests |-> <<keywords[1]>>]

\* 81-96: the loop over the keywords, answers[i] being what the i-th request
\* gets; requests: the keywords requests.get was called for, in order
RECURSIVE SearchLoop(_, _, _)
SearchLoop(keywords, answers, search_results) ==
    IF keywords = <<>>
    THEN [raised |-> FALSE, search_results |-> search_results, requests |-> <<>>]
    ELSE IF answers[1].kind = "raises"
    THEN [raised |-> TRUE, search_results |-> <<>>, requests |-> <<keywords[1]>>]
    ELSE LET rest == SearchLoop(Tail(keywords), Tail(answers),
                        IF answers[1].kind = "200"
                        THEN search_results \o HitsOf(keywords[1], answers[1])
                        ELSE search_results)
         IN [rest EXCEPT !.requests = <<keywords[1]>> \o @]

\* 73-101: the list returned; any exception gives []
search_codebase_for_keywords(keywords, answers) ==
    LET r == SearchLoop(Take(keywords, KeywordLimit), answers, <<>>)
    IN IF r.raised THEN <<>> ELSE r.search_results

----------------------------------------------------------------------------
(* MongoDB update semantics used by mongodb.py *)

\* An update document whose operators target the same path is rejected by the
\* server (ConflictingUpdateOperators, code 40); pymongo raises WriteError.
UpdateConflict(setFields, incFields) == setFields \cap incFields # {}

\* mongodb.py 257-265: the fields of the $set document of save_repo_context
SaveSetFields == {"repo_full_name", "context_text", "language", "metadata",
                  "created_at", "updated_at", "access_count"}
\* mongodb.py 271: the fields of its $inc document
SaveIncFields == {"access_count"}

AccessCount(coll, name) ==
    IF coll[name] = NoDoc THEN 0 ELSE coll[name].access_count

\* mongodb.py 254-280: save_repo_context.  The collection afterwards; dbOk is
\* whether the server answers update_one.  Every exception is caught (278-280).
save_repo_context(coll, name, context_text, dbOk) ==
    IF ~dbOk \/ UpdateConflict(SaveSetFields, SaveIncFields)
    THEN coll
    ELSE LET base == IF "access_count" \in SaveSetFields THEN 0
                     ELSE AccessCount(coll, name)
         IN [coll EXCEPT ![name] = [context_text |-> context_text,
                                    access_count |-> base + 1]]

\* mongodb.py 283-303: get_repo_context.  <<returned value, collection afterwards>>;
\* findOk / incOk are whether the server answers find_one / update_one.
get_repo_context(coll, name, findOk, incOk) ==
    IF ~findOk \/ coll[name] = NoDoc THEN <<None, coll>>
    ELSE IF ~incOk THEN <<None, coll>>
    ELSE <<coll[name],
           [coll EXCEPT ![name].access_count = coll[name].access_count + 1]>>

----------------------------------------------------------------------------
(* create_deep_project_context, ai_service.py 324-469 *)

\* model_calls: the requests to the generative model the call has issued
CtxIdleLoc == [repo |-> None, all_files |-> <<>>, readme_content |-> "",
               project_context |-> None, model_calls |-> 0]

CtxInit ==
    /\ repo_context_collection = [r \in Repos |-> NoDoc]
    /\ cpc = [p \in Procs |-> "idle"]
    /\ cloc = [p \in Procs |-> CtxIdleLoc]
    /\ cret = [p \in Procs |-> [kind |-> "none"]]
    /\ ctxCalls = 0
    /\ modelCalls = [r \in Repos |-> 0]
    /\ returnedOk = [r \in Repos |-> 0]
    /\ afterOk = [p \in Procs |-> FALSE]
    /\ ctxRequests = [p \in Procs |-> 0]

\* The call returns `value` (324-338, 464).
CtxReturn(p, value) ==
    /\ cpc' = [cpc EXCEPT ![p] = "idle"]
    /\ cret' = [cret EXCEPT ![p] = [kind |-> "ok", repo |-> cloc[p].repo, context |-> value]]
    /\ returnedOk' = [returnedOk EXCEPT ![cloc[p].repo] = @ + 1]

\* The call raises "Deep analysis failed" (466-469).
CtxRaise(p) ==
    /\ cpc' = [cpc EXCEPT ![p] = "idle"]
    /\ cret' = [cret EXCEPT ![p] = [kind |-> "error", repo |-> cloc[p].repo]]
    /\ UNCHANGED returnedOk

\* 324-331: a caller invokes create_deep_project_context(owner, repo).
create_deep_project_context(p, r) ==
    /\ cpc[p] = "idle"
    /\ ctxCalls < env.ctx_calls
    /\ ctxCalls' = ctxCalls + 1
    /\ cpc' = [cpc EXCEPT ![p] = "cache_check"]
    /\ cloc' = [cloc EXCEPT ![p] = [CtxIdleLoc EXCEPT !.repo = r]]
    /\ cret' = [cret EXCEPT ![p] = [kind |-> "none"]]
    /\ afterOk' = [afterOk EXCEPT ![p] = returnedOk[r] > 0]
    /\ ctxRequests' = [ctxRequests EXCEPT ![p] = 0]
    /\ UNCHANGED <<repo_context_collection, modelCalls, returnedOk>>
    /\ UNCHANGED taskVars
    /\ UNCHANGED <<callVars, apiVars>>

\* 333-340: the cache check.
CacheCheck(p) ==
    /\ cpc[p] = "cache_check"
    /\ \E findOk \in BOOLEAN, incOk \in BOOLEAN :
         LET got == get_repo_context(repo_context_collection, cloc[p].repo, findOk, incOk)
         IN /\ repo_context_collection' = got[2]
            /\ IF got[1] # None
               THEN CtxReturn(p, got[1].context_text)
               ELSE /\ cpc' = [cpc EXCEPT ![p] = "tree_main"]
                    /\ UNCHANGED <<cret, returnedOk>>
    /\ UNCHANGED <<cloc, ctxCalls, modelCalls, afterOk, ctxRequests>>
    /\ UNCHANGED taskVars
    /\ UNCHANGED <<callVars, apiVars>>

\* 345-350: the file tree of branch main.
FetchTreeMain(p) ==
    /\ cpc[p] = "tree_main"
    /\ ctxRequests' = [ctxRequests EXCEPT ![p] = @ + 1]
    /\ \E status \in {"exc", "200", "404"}, files \in FileLists :
         CASE status = "exc" -> CtxRaise(p) /\ UNCHANGED cloc
           [] status = "200" ->
                /\ cloc' = [cloc EXCEPT ![p].all_files = files]
                /\ cpc' = [cpc EXCEPT ![p] = "readme"]
                /\ UNCHANGED <<cret, returnedOk>>
           [] OTHER ->
                /\ cpc' = [cpc EXCEPT ![p] = "tree_master"]
                /\ UNCHANGED <<cloc, cret, returnedOk>>
    /\ UNCHANGED <<repo_context_collection, ctxCalls, modelCalls, afterOk>>
    /\ UNCHANGED taskVars
    /\ UNCHANGED <<callVars, apiVars>>

\* 350-356: the fallback to branch master; a non-200 JSON body has no 'tree'.
FetchTreeMaster(p) ==
    /\ cpc[p] = "tree_master"
    /\ ctxRequests' = [ctxRequests EXCEPT ![p] = @ + 1]
    /\ \E status \in {"exc", "200", "404"}, files \in FileLists :
         IF status = "exc" THEN CtxRaise(p) /\ UNCHANGED cloc
         ELSE /\ cloc' = [cloc EXCEPT ![p].all_files =
                            IF status = "200" THEN files ELSE <<>>]
              /\ cpc' = [cpc EXCEPT ![p] = "readme"]
              /\ UNCHANGED <<cret, returnedOk>>
    /\ UNCHANGED <<repo_context_collection, ctxCalls, modelCalls, afterOk>>
    /\ UNCHANGED taskVars
    /\ UNCHANGED <<callVars, apiVars>>

\* 358-366: the README.
FetchReadme(p) ==
    /\ cpc[p] = "readme"
    /\ ctxRequests' = [ctxRequests EXCEPT ![p] = @ + 1]
    /\ \E status \in {"exc", "200", "404"}, body \in Readmes :
         IF status = "exc" THEN CtxRaise(p) /\ UNCHANGED cloc
         ELSE /\ cloc' = [cloc EXCEPT ![p].readme_content =
                            IF status = "200" THEN body ELSE ""]
              /\ cpc' = [cpc EXCEPT ![p] = "gemini"]
              /\ UNCHANGED <<cret, returnedOk>>
    /\ UNCHANGED <<repo_context_collection, ctxCalls, modelCalls, afterOk>>
    /\ UNCHANGED taskVars
    /\ UNCHANGED <<callVars, apiVars>>

\* 414-449: the deep-analysis request to the generative model and its parse.
DeepAnalysis(p) ==
    /\ cpc[p] = "gemini"
    /\ ctxRequests' = [ctxRequests EXCEPT ![p] = @ + 1]
    /\ modelCalls' = [modelCalls EXCEPT ![cloc[p].repo] = @ + 1]
    /\ \E kind \in GeminiKinds :
         IF GeminiRaises(kind)
         THEN /\ CtxRaise(p)
              /\ cloc' = [cloc EXCEPT ![p].model_calls = @ + 1]
         ELSE \E obj \in Contexts :
              /\ cloc' = [cloc EXCEPT ![p].project_context = obj,
                                      ![p].model_calls = @ + 1]
              /\ cpc' = [cpc EXCEPT ![p] = "save"]
              /\ UNCHANGED <<cret, returnedOk>>
    /\ UNCHANGED <<repo_context_collection, ctxCalls, afterOk>>
    /\ UNCHANGED taskVars
    /\ UNCHANGED <<callVars, apiVars>>

\* A faulty variant: a cache write that stores nothing fails the call.
SaveAndReturn_FailsWithTheWrite(p) ==
    /\ cpc[p] = "save"
    /\ UNCHANGED repo_context_collection
    /\ CtxRaise(p)
    /\ UNCHANGED <<cloc, ctxCalls, modelCalls, afterOk, ctxRequests>>
    /\ UNCHANGED taskVars
    /\ UNCHANGED <<callVars, apiVars>>

\* 451-464: the cache write, then the return of the fresh context.
SaveAndReturn(p) ==
    /\ cpc[p] = "save"
    /\ \E dbOk \in BOOLEAN :
         repo_context_collection' =
            save_repo_context(repo_context_collection, cloc[p].repo,
                              cloc[p].project_context, dbOk)
    /\ CtxReturn(p, cloc[p].project_context)
    /\ UNCHANGED <<cloc, ctxCalls, modelCalls, afterOk, ctxRequests>>
    /\ UNCHANGED taskVars
    /\ UNCHANGED <<callVars, apiVars>>

CtxNext ==
    \E p \in Procs :
        \/ \E r \in Repos : create_deep_project_context(p, r)
        \/ CacheCheck(p)
        \/ FetchTreeMain(p)
        \/ FetchTreeMaster(p)
        \/ FetchReadme(p)
        \/ DeepAnalysis(p)
        \/ SaveAndReturn(p)


----------------------------------------------------------------------------
(* What the deep-context cache is said to guarantee *)

\* C1: once a getDeepContext call for a repository has returned a context, a
\* later call for the same repository is a cache hit: it never leaves the
\* cache check for the fetch path, issues no outbound request and returns.
C1_LaterCallIsCacheHit ==
    \A p \in Procs :
        afterOk[p] =>
            /\ cpc[p] \in {"idle", "cache_check"}
            /\ ctxRequests[p] = 0
            /\ cret[p].kind \in {"none", "ok"}

\* C2: the generative model is invoked at most once per repository, under any
\* interleaving of the calls for it.
C2_ModelInvokedAtMostOncePerRepo ==
    \A r \in Repos : modelCalls[r] <= 1

\* C3: every getDeepContext call that returns a context (a cache hit, or a
\* miss that stores its fresh context) raises the repository's access count by
\* exactly 1, so the count equals the number of such calls and never decreases.
C3_AccessCountCountsCalls ==
    \A r \in Repos : AccessCount(repo_context_collection, r) = returnedOk[r]

----------------------------------------------------------------------------
(* Values of the task pipeline *)

NoSid == <<"none", 0>>                       \* no session_id (None, absent or "")
CallerSids == {<<"caller", 1>>}              \* session ids chosen by callers
Uuid(n) == <<"uuid", n>>                     \* tasks.py 28: str(uuid.uuid4()) of the n-th request
Sids == CallerSids \cup {Uuid(n) : n \in 1..MaxClassifyRequests}

Whitespace == {" "}
NoTask == <<"<None>">>                       \* body has no 'task'
Tasks == {NoTask, <<>>, <<" ">>, <<"a">>, <<" ", "b">>}   \* task texts, as character sequences
ValidTasks == {<<"a">>, <<" ", "b">>}

Absent == "<absent>"                         \* a key the parsed object does not have
\* parsed objects of the type-detection answer
TypeObjs == {[task_type |-> "new", keywords |-> <<"k1">>],
             [task_type |-> "update", keywords |-> <<"k1">>],
             [task_type |-> "both", keywords |-> <<>>],
             [task_type |-> "refactor", keywords |-> <<"k1">>],
             [task_type |-> Absent, keywords |-> <<>>]}
Finding(k) == [file |-> "f1", keyword |-> k]
\* parsed objects of the clarity answer; the second one has keys of its own
\* with the names the type detection and the search use
ClarityObjs ==
    {[status |-> "clear", task_type |-> Absent, keywords |-> Absent,
      codebase_findings |-> Absent],
     [status |-> "ambiguous", task_type |-> "new", keywords |-> <<"kc">>,
      codebase_findings |-> <<Finding("kc")>>],
     [status |-> "unsure", task_type |-> Absent, keywords |-> Absent,
      codebase_findings |-> Absent]}
Plans == {"planA", "planB"}                  \* parsed objects of the plan answer

\* The environments of the specifications
EnvTasks == [budget |-> MaxTaskRequests, ctx_calls |-> MaxContextCalls, tasks |-> ValidTasks,
             plan_tasks |-> {<<"a">>}, plans |-> {"planA"},
             types |-> {o \in TypeObjs : o.task_type \in {"update", Absent}},
             clarity |-> {o \in ClarityObjs : o.status = "clear"}]
EnvClassify == [budget |-> MaxClassifyRequests, ctx_calls |-> MaxContextCalls, tasks |-> Tasks,
                plan_tasks |-> ValidTasks, plans |-> Plans,
                types |-> TypeObjs, clarity |-> ClarityObjs]
EnvHistory == [budget |-> MaxHistoryRequests, ctx_calls |-> MaxContextCalls, tasks |-> {<<"a">>},
               plan_tasks |-> {<<"a">>}, plans |-> Plans,
               types |-> {o \in TypeObjs : o.task_type = "new"},
               clarity |-> {o \in ClarityObjs : o.status = "clear"}]
EnvOutbound == [budget |-> MaxOutboundCalls, ctx_calls |-> MaxOutboundCalls,
                tasks |-> {<<"a">>}, plan_tasks |-> {<<"a">>}, plans |-> {"planA"},
                types |-> {o \in TypeObjs : o.task_type \in {"new", "update"}},
                clarity |-> {o \in ClarityObjs : o.status = "clear"}]

NoInfo == [absent |-> TRUE]
NoAnalysis == [absent |-> TRUE]
NoSession == [absent |-> TRUE]
NoEntry == [absent |-> TRUE]
NoPlan == "None"
NoPrompt == [absent |-> TRUE]

----------------------------------------------------------------------------
(* Pure parts of the task pipeline *)

RECURSIVE LStrip(_)
LStrip(t) == IF t # <<>> /\ Head(t) \in Whitespace THEN LStrip(Tail(t)) ELSE t

RECURSIVE RStrip(_)
RStrip(t) == IF t # <<>> /\ t[Len(t)] \in Whitespace
             THEN RStrip(SubSeq(t, 1, Len(t) - 1)) ELSE t

\* str.strip()
Strip(t) == RStrip(LStrip(t))

\* A faulty variant: the validation without .strip().
RejectsTask_NoStrip(task) == task = NoTask \/ task = <<>>

\* tasks.py 37 (and 95): `not task or not task.strip()`
RejectsTask(task) == task = NoTask \/ task = <<>> \/ Strip(task) = <<>>

\* tasks.py 28: body.get('session_id') or str(uuid.uuid4())
RouteSessionId(sid_in, n) == IF sid_in # NoSid THEN sid_in ELSE Uuid(n)

\* A faulty variant: the gate looks at the task type only.
SearchGate_TypeOnly(task_type, has_repo) == task_type \in {"update", "both"}

\* ai_service.py 199: the keyword-search gate
SearchGate(task_type, has_repo) == task_type \in {"update", "both"} /\ has_repo

\* A faulty variant: the warning is written whenever nothing was found.
FindingsText_WarnsAlways(task_type, findings) ==
    IF findings # <<>> THEN [kind |-> "found", files |-> findings] ELSE [kind |-> "warning"]

\* ai_service.py 226-232: findings_text, the part of the clarity prompt that
\* lists the found files, or carries the no-evidence warning, or is empty
FindingsText(task_type, findings) ==
    IF findings # <<>> THEN [kind |-> "found", files |-> findings]
    ELSE IF task_type \in {"update", "both"} THEN [kind |-> "warning"]
    ELSE [kind |-> "empty"]

\* ai_service.py 234-257: clarity_prompt, by its variable parts
ClarityPrompt(task, task_type, findings) ==
    [task |-> task, task_type |-> task_type,
     findings_text |-> FindingsText(task_type, findings)]

\* A faulty variant: a key the clarity object has of its own is kept.
MergeResult_ClarityKeysWin(obj, info, findings) ==
    [obj EXCEPT !.task_type = IF @ = Absent THEN info.task_type ELSE @,
                !.keywords = IF @ = Absent THEN info.keywords ELSE @,
                !.codebase_findings = IF @ = Absent THEN findings ELSE @]

\* ai_service.py 291-299: the clarity object with the type-detection fields and
\* the findings assigned over whatever it had under those keys
MergeResult(obj, info, findings) ==
    [obj EXCEPT !.task_type = info.task_type,
                !.keywords = info.keywords,
                !.codebase_findings = findings]

\* A faulty variant: an existing entry is updated field by field, its task kept.
StoreSession_FieldByField(sessions, sid, task, result) ==
    IF sid = NoSid THEN sessions
    ELSE IF sessions[sid] = [absent |-> TRUE]
    THEN [sessions EXCEPT ![sid] = [task |-> task, analysis |-> result]]
    ELSE [sessions EXCEPT ![sid] = [task |-> sessions[sid].task, analysis |-> result]]

\* A faulty variant: an existing session entry is kept, only a new one is written.
StoreSession_KeepExisting(sessions, sid, task, result) ==
    IF sid # NoSid /\ sessions[sid] = [absent |-> TRUE]
    THEN [sessions EXCEPT ![sid] = [task |-> task, analysis |-> result]]
    ELSE sessions

\* ai_service.py 303-308: the session write ('created_at' is left out: nothing reads it)
StoreSession(sessions, sid, task, result) ==
    IF sid # NoSid
    THEN [sessions EXCEPT ![sid] = [task |-> task, analysis |-> result]]
    ELSE sessions

\* A faulty variant: the findings of the session are not read.
SessionView_NoFindings(sessions, sid) ==
    IF sid # NoSid /\ sessions[sid] # [absent |-> TRUE]
    THEN [task_type |-> sessions[sid].analysis.task_type, codebase_findings |-> <<>>]
    ELSE [task_type |-> "new", codebase_findings |-> <<>>]

\* A faulty variant: the default task type is "update".
SessionView_DefaultUpdate(sessions, sid) ==
    IF sid # NoSid /\ sessions[sid] # [absent |-> TRUE]
    THEN [task_type |-> sessions[sid].analysis.task_type,
          codebase_findings |-> sessions[sid].analysis.codebase_findings]
    ELSE [task_type |-> "update", codebase_findings |-> <<>>]

\* ai_service.py 486-495: what generate_implementation_plan reads from the session map
SessionView(sessions, sid) ==
    IF sid # NoSid /\ sessions[sid] # NoSession
    THEN [task_type |-> sessions[sid].analysis.task_type,
          codebase_findings |-> sessions[sid].analysis.codebase_findings]
    ELSE [task_type |-> "new", codebase_findings |-> <<>>]

\* A faulty variant: the entry loses its prompt.
HistoryEntry_NoPrompt(t, prompt, analysis, plan) ==
    [timestamp |-> t, prompt |-> <<>>, analysis |-> analysis, plan |-> plan]

\* mongodb.py 334-339: the entry, stamped by the caller's clock
HistoryEntry(t, prompt, analysis, plan) ==
    [timestamp |-> t, prompt |-> prompt, analysis |-> analysis, plan |-> plan]

\* A faulty variant: the entry is put in front of the list.
save_conversation_history_Prepend(coll, sid, entry, dbOk) ==
    IF dbOk THEN [coll EXCEPT ![sid] = <<entry>> \o @] ELSE coll

\* mongodb.py 331-354: save_conversation_history; $push with upsert, every
\* exception caught.  The collection afterwards.
save_conversation_history(coll, sid, entry, dbOk) ==
    IF dbOk THEN [coll EXCEPT ![sid] = Append(@, entry)] ELSE coll

\* mongodb.py 357-370 (through ai_service.py 28-34): the list a reader gets
get_conversation_history(coll, sid, dbOk) ==
    IF dbOk THEN coll[sid] ELSE <<>>

----------------------------------------------------------------------------------------------------------------------------------------
(* The task requests: tasks.py analyze / generate_plan / get_history,       *)
(* ai_service.py analyze_task_with_llm / generate_implementation_plan      *)

\* Locals of a request.  Besides the code's own:
\* route:    the request came in over HTTP (tasks.py), not as a direct call
\* kind, value: how the request ended ("ok", "error", "400") and what it returned
\* outbound: the request has issued an outbound network call
\* wrote:    the request has changed task_sessions or the history
\* clarity_prompt: the prompt of the clarity call, built once the findings are known
\* issued:   the steps of the request that have issued their outbound call (the
\*           model calls "type_detection", "clarity", "plan"; the code search
\*           "search"), in the order they were issued
\* resp:     whether the last generative-model answer the request received was a
\*           failure ("failed") or a parsed object ("ok")
TaskIdleLoc == [op |-> "none", route |-> FALSE, task |-> <<>>, sid |-> NoSid, has_repo |-> FALSE,
                task_type_info |-> NoInfo, codebase_findings |-> <<>>,
                result |-> NoAnalysis, plan |-> NoPlan, entry |-> NoEntry,
                clarity_prompt |-> NoPrompt,
                task_type |-> "new", session_found |-> FALSE,
                outbound |-> FALSE, wrote |-> FALSE, resp |-> "none",
                issued |-> <<>>,
                kind |-> "none", value |-> NoAnalysis]

TaskInit(e) ==
    /\ env = e
    /\ task_sessions = [s \in Sids |-> NoSession]
    /\ conversation_history_collection = [s \in Sids |-> <<>>]
    /\ now = 0
    /\ tpc = [p \in Procs |-> "idle"]
    /\ tloc = [p \in Procs |-> TaskIdleLoc]
    /\ taskRequests = 0
    /\ lastClassify = [s \in Sids |-> NoAnalysis]
    /\ failedSince = [s \in Sids |-> FALSE]
    /\ overlapped = [s \in Sids |-> FALSE]
    /\ lastRead = [s \in Sids |-> [any |-> <<>>, good |-> <<>>]]

stores == <<task_sessions, conversation_history_collection>>
readGhosts == <<overlapped, lastRead, env>>

\* A request is taken by an idle worker: the first one, the workers being alike.
BeginRequest(p) ==
    /\ tpc[p] = "idle"
    /\ p = "w1" \/ tpc["w1"] # "idle"
    /\ taskRequests < env.budget
    /\ taskRequests' = taskRequests + 1
    /\ UNCHANGED env

\* The request of worker p, whose locals are now `loc`, ends: the worker holds
\* the answer until it is sent (Respond).
TaskEnd(p, kind, loc, value) ==
    /\ tpc' = [tpc EXCEPT ![p] = "returned"]
    /\ tloc' = [tloc EXCEPT ![p] =
                  [TaskIdleLoc EXCEPT !.op = loc.op, !.route = loc.route,
                                      !.task = loc.task, !.sid = loc.sid,
                                      !.session_found = loc.session_found,
                                      !.outbound = loc.outbound, !.wrote = loc.wrote,
                                      !.resp = loc.resp, !.issued = loc.issued,
                                      !.kind = kind, !.value = value]]

\* The answer is sent and the worker is free again.
Respond(p) ==
    /\ tpc[p] = "returned"
    /\ tpc' = [tpc EXCEPT ![p] = "idle"]
    /\ tloc' = [tloc EXCEPT ![p] = TaskIdleLoc]
    /\ UNCHANGED <<task_sessions, conversation_history_collection, now, taskRequests,
                   lastClassify, failedSince, overlapped, lastRead, env>>
    /\ UNCHANGED ctxVars
    /\ UNCHANGED <<callVars, apiVars>>

\* A faulty variant: a model call that failed is issued again, up to three calls.
TaskRaise_ReissuesTheCall(p, loc) ==
    IF loc.resp = "failed" /\ Len(loc.issued) < 3
    THEN /\ tloc' = [tloc EXCEPT ![p] = loc]
         /\ UNCHANGED <<tpc, failedSince>>
    ELSE /\ TaskEnd(p, "error", loc, NoAnalysis)
         /\ UNCHANGED failedSince

\* The request ends with an exception (ai_service.py 319-322, 600-602;
\* tasks.py 66-69, 107-110 turn it into a 500).
TaskRaise(p, loc) ==
    /\ TaskEnd(p, "error", loc, NoAnalysis)
    /\ failedSince' =
         IF loc.op = "classify" /\ loc.sid # NoSid /\ lastClassify[loc.sid] # NoAnalysis
         THEN [failedSince EXCEPT ![loc.sid] = TRUE]
         ELSE failedSince

\* tasks.py 14-49: POST /analyze up to the call of analyze_task_with_llm.
analyze(p, task, sid_in, has_repo, has_token) ==
    /\ BeginRequest(p)
    /\ LET loc == [TaskIdleLoc EXCEPT !.op = "classify", !.route = TRUE, !.task = task,
                      !.sid = RouteSessionId(sid_in, taskRequests + 1),
                      !.has_repo = has_repo]
       IN IF RejectsTask(task)
          THEN TaskEnd(p, "400", loc, NoAnalysis)
          ELSE /\ tloc' = [tloc EXCEPT ![p] = loc]
               /\ tpc' = [tpc EXCEPT ![p] =
                             IF has_repo /\ has_token THEN "repo_structure"
                             ELSE "type_detection"]
    /\ UNCHANGED <<stores, now, lastClassify, failedSince, readGhosts>>
    /\ UNCHANGED ctxVars
    /\ UNCHANGED <<callVars, apiVars>>

\* tasks.py 43-46: analyze_repo_structure (github_service.py 38-124), whose
\* exceptions end the request.
RepoStructure(p) ==
    /\ tpc[p] = "repo_structure"
    /\ LET loc == [tloc[p] EXCEPT !.outbound = TRUE]
       IN \E ok \in BOOLEAN :
            IF ok THEN /\ tpc' = [tpc EXCEPT ![p] = "type_detection"]
                       /\ tloc' = [tloc EXCEPT ![p] = loc]
                       /\ UNCHANGED failedSince
            ELSE TaskRaise(p, loc)
    /\ UNCHANGED <<stores, now, taskRequests, lastClassify, readGhosts>>
    /\ UNCHANGED ctxVars
    /\ UNCHANGED <<callVars, apiVars>>

\* ai_service.py 103-155: analyze_task_with_llm called directly, session_id optional.
analyze_task_with_llm(p, task, sid, has_repo) ==
    /\ BeginRequest(p)
    /\ tloc' = [tloc EXCEPT ![p] =
                  [TaskIdleLoc EXCEPT !.op = "classify", !.task = task,
                                      !.sid = sid, !.has_repo = has_repo]]
    /\ tpc' = [tpc EXCEPT ![p] = "type_detection"]
    /\ UNCHANGED <<stores, now, lastClassify, failedSince, readGhosts>>
    /\ UNCHANGED ctxVars
    /\ UNCHANGED <<callVars, apiVars>>

\* A faulty variant: the clarity prompt is built straight after the type
\* detection, the search left for later.
TypeDetection_SkipsTheSearch(p) ==
    /\ tpc[p] = "type_detection"
    /\ \E kind \in GeminiKinds :
         LET loc == [tloc[p] EXCEPT !.outbound = TRUE, !.resp = Answered(kind),
                                    !.issued = Append(@, "type_detection")]
         IN IF GeminiRaises(kind)
            THEN TaskRaise(p, loc)
            ELSE \E obj \in env.types :
                 IF obj.task_type = Absent
                 THEN TaskRaise(p, loc)
                 ELSE /\ tloc' = [tloc EXCEPT ![p] =
                                   [loc EXCEPT !.task_type_info = obj,
                                      !.clarity_prompt =
                                          ClarityPrompt(loc.task, obj.task_type, <<>>)]]
                      /\ tpc' = [tpc EXCEPT ![p] = "clarity"]
                      /\ UNCHANGED failedSince
    /\ UNCHANGED <<stores, now, taskRequests, lastClassify, readGhosts>>
    /\ UNCHANGED ctxVars
    /\ UNCHANGED <<callVars, apiVars>>

\* ai_service.py 156-257: the type-detection answer, then the search gate; with
\* the gate closed the clarity prompt is built from no findings.
TypeDetection(p) ==
    /\ tpc[p] = "type_detection"
    /\ \E kind \in GeminiKinds :
         LET loc == [tloc[p] EXCEPT !.outbound = TRUE, !.resp = Answered(kind),
                                    !.issued = Append(@, "type_detection")]
         IN IF GeminiRaises(kind)
            THEN TaskRaise(p, loc)
            ELSE \E obj \in env.types :
                 IF obj.task_type = Absent
                 THEN TaskRaise(p, loc)       \* 199: KeyError
                 ELSE /\ tloc' = [tloc EXCEPT ![p] =
                                   [loc EXCEPT !.task_type_info = obj,
                                      !.clarity_prompt =
                                          IF SearchGate(obj.task_type, loc.has_repo)
                                          THEN NoPrompt
                                          ELSE ClarityPrompt(loc.task, obj.task_type, <<>>)]]
                      /\ tpc' = [tpc EXCEPT ![p] =
                                   IF SearchGate(obj.task_type, loc.has_repo)
                                   THEN "search" ELSE "clarity"]
                      /\ UNCHANGED failedSince
    /\ UNCHANGED <<stores, now, taskRequests, lastClassify, readGhosts>>
    /\ UNCHANGED ctxVars
    /\ UNCHANGED <<callVars, apiVars>>

\* ai_service.py 201-257 (73-101): the keyword search, which never raises, and
\* the clarity prompt built from its result.
SearchCodebase(p) ==
    /\ tpc[p] = "search"
    /\ \E hit \in BOOLEAN :
         LET keywords == tloc[p].task_type_info.keywords
             found == IF hit /\ keywords # <<>> THEN <<Finding(keywords[1])>> ELSE <<>>
         IN tloc' = [tloc EXCEPT
                ![p].outbound = @ \/ keywords # <<>>,
                ![p].issued = Append(@, "search"),
                ![p].codebase_findings = found,
                ![p].clarity_prompt =
                    ClarityPrompt(tloc[p].task, tloc[p].task_type_info.task_type, found)]
    /\ tpc' = [tpc EXCEPT ![p] = "clarity"]
    /\ UNCHANGED <<stores, now, taskRequests, lastClassify, failedSince, readGhosts>>
    /\ UNCHANGED ctxVars
    /\ UNCHANGED <<callVars, apiVars>>

\* Another worker has stamped an entry for `sid` that has not reached the store.
AppendInFlight(p, sid) ==
    \E q \in Procs \ {p} : tpc[q] = "history" /\ tloc[q].sid = sid

\* ai_service.py 259-317: the clarity answer, the merge, the session write and
\* the start of add_to_history (mongodb.py 334-339 stamps the entry).
ClarityAnalysis(p) ==
    /\ tpc[p] = "clarity"
    /\ \E kind \in GeminiKinds :
         LET loc == [tloc[p] EXCEPT !.outbound = TRUE, !.resp = Answered(kind),
                                    !.issued = Append(@, "clarity")]
             sid == loc.sid
         IN IF GeminiRaises(kind)
            THEN /\ TaskRaise(p, loc)
                 /\ UNCHANGED <<stores, lastClassify, overlapped>>
            ELSE \E obj \in env.clarity :
                 LET result == MergeResult(obj, loc.task_type_info, loc.codebase_findings)
                 IN
                 /\ task_sessions' = StoreSession(task_sessions, sid, loc.task, result)
                 /\ UNCHANGED conversation_history_collection
                 /\ LET done == [loc EXCEPT !.result = result,
                                            !.wrote = task_sessions' # task_sessions]
                    IN IF sid # NoSid
                       THEN /\ tloc' = [tloc EXCEPT ![p] =
                                         [done EXCEPT !.entry =
                                             HistoryEntry(now, loc.task, result, NoPlan)]]
                            /\ tpc' = [tpc EXCEPT ![p] = "history"]
                            /\ lastClassify' = [lastClassify EXCEPT ![sid] = result]
                            /\ failedSince' = [failedSince EXCEPT ![sid] = FALSE]
                            /\ overlapped' = [overlapped EXCEPT ![sid] = @ \/ AppendInFlight(p, sid)]
                       ELSE /\ TaskEnd(p, "ok", done, result)
                            /\ UNCHANGED <<lastClassify, failedSince, overlapped>>
    /\ UNCHANGED <<now, taskRequests, lastRead, env>>
    /\ UNCHANGED ctxVars
    /\ UNCHANGED <<callVars, apiVars>>

\* The value a request hands back: the Classification (ai_service.py 317), or
\* the Plan (598) with the task_type and findings its prompt was built from.
Outcome(loc) ==
    IF loc.op = "classify" THEN loc.result
    ELSE [plan |-> loc.plan, task_type |-> loc.task_type,
          codebase_findings |-> loc.codebase_findings]

\* A faulty variant: a failed history write fails the request.
SaveHistory_FailsWithTheAppend(p) ==
    /\ tpc[p] = "history"
    /\ \E dbOk \in BOOLEAN :
         /\ conversation_history_collection' =
               save_conversation_history(conversation_history_collection,
                                         tloc[p].sid, tloc[p].entry, dbOk)
         /\ IF dbOk THEN TaskEnd(p, "ok", tloc[p], Outcome(tloc[p])) /\ UNCHANGED failedSince
            ELSE TaskRaise(p, tloc[p])
    /\ UNCHANGED <<task_sessions, now, taskRequests, lastClassify, readGhosts>>
    /\ UNCHANGED ctxVars
    /\ UNCHANGED <<callVars, apiVars>>

\* mongodb.py 341-354: the entry reaches the store (or the write fails and is
\* swallowed: ai_service.py 22-26, 591-596), then the request returns its result.
SaveHistory(p) ==
    /\ tpc[p] = "history"
    /\ \E dbOk \in BOOLEAN :
         conversation_history_collection' =
            save_conversation_history(conversation_history_collection,
                                      tloc[p].sid, tloc[p].entry, dbOk)
    /\ LET loc == [tloc[p] EXCEPT !.wrote =
                     @ \/ conversation_history_collection' # conversation_history_collection]
       IN TaskEnd(p, "ok", loc, Outcome(loc))
    /\ UNCHANGED <<task_sessions, now, taskRequests, lastClassify, failedSince, readGhosts>>
    /\ UNCHANGED ctxVars
    /\ UNCHANGED <<callVars, apiVars>>

\* A faulty variant: a plan for an unknown session id opens a session for it.
generate_plan_OpensASession(p, task, sid) ==
    /\ BeginRequest(p)
    /\ LET view == SessionView(task_sessions, sid)
           loc == [TaskIdleLoc EXCEPT !.op = "plan", !.route = TRUE, !.task = task,
                      !.sid = sid, !.task_type = view.task_type,
                      !.codebase_findings = view.codebase_findings,
                      !.session_found = sid # NoSid /\ task_sessions[sid] # NoSession]
       IN /\ tloc' = [tloc EXCEPT ![p] = loc]
          /\ tpc' = [tpc EXCEPT ![p] = "plan"]
          /\ task_sessions' =
                IF sid # NoSid /\ task_sessions[sid] = NoSession
                THEN [task_sessions EXCEPT ![sid] =
                        [task |-> task,
                         analysis |-> [status |-> "clear", task_type |-> "new",
                                       keywords |-> <<>>, codebase_findings |-> <<>>]]]
                ELSE task_sessions
    /\ UNCHANGED <<conversation_history_collection, now, lastClassify, failedSince, readGhosts>>
    /\ UNCHANGED ctxVars
    /\ UNCHANGED <<callVars, apiVars>>

\* tasks.py 72-100 and ai_service.py 477-543: POST /generate_plan up to the
\* request to the generative model; the session is read here.  (`answers` and
\* `team_members` only shape the prompt text and are left out.)
generate_plan(p, task, sid) ==
    /\ BeginRequest(p)
    /\ LET view == SessionView(task_sessions, sid)
           loc == [TaskIdleLoc EXCEPT !.op = "plan", !.route = TRUE, !.task = task,
                      !.sid = sid, !.task_type = view.task_type,
                      !.codebase_findings = view.codebase_findings,
                      !.session_found = sid # NoSid /\ task_sessions[sid] # NoSession]
       IN IF RejectsTask(task)
          THEN TaskEnd(p, "400", [TaskIdleLoc EXCEPT !.op = "plan", !.route = TRUE,
                                                      !.task = task, !.sid = sid],
                       NoAnalysis)
          ELSE /\ tloc' = [tloc EXCEPT ![p] = loc]
               /\ tpc' = [tpc EXCEPT ![p] = "plan"]
    /\ UNCHANGED <<stores, now, lastClassify, failedSince, readGhosts>>
    /\ UNCHANGED ctxVars
    /\ UNCHANGED <<callVars, apiVars>>

\* ai_service.py 545-598: the plan answer and the start of the history append.
PlanGeneration(p) ==
    /\ tpc[p] = "plan"
    /\ \E kind \in GeminiKinds :
         LET loc == [tloc[p] EXCEPT !.outbound = TRUE, !.resp = Answered(kind),
                                    !.issued = Append(@, "plan")]
             sid == loc.sid
         IN IF GeminiRaises(kind)
            THEN TaskRaise(p, loc) /\ UNCHANGED overlapped
            ELSE \E obj \in env.plans :
                 LET done == [loc EXCEPT !.plan = obj]
                 IN
                 IF sid # NoSid
                 THEN /\ tloc' = [tloc EXCEPT ![p] =
                                   [done EXCEPT !.entry =
                                       HistoryEntry(now, loc.task, NoAnalysis, obj)]]
                      /\ tpc' = [tpc EXCEPT ![p] = "history"]
                      /\ overlapped' = [overlapped EXCEPT ![sid] = @ \/ AppendInFlight(p, sid)]
                      /\ UNCHANGED failedSince
                 ELSE /\ TaskEnd(p, "ok", done, Outcome(done))
                      /\ UNCHANGED <<overlapped, failedSince>>
    /\ UNCHANGED <<stores, now, taskRequests, lastClassify, lastRead, env>>
    /\ UNCHANGED ctxVars
    /\ UNCHANGED <<callVars, apiVars>>

\* tasks.py 132-146: GET /conversation_history/<session_id>.
get_history(p, sid) ==
    /\ tpc[p] = "idle"
    /\ \E dbOk \in BOOLEAN :
         LET got == get_conversation_history(conversation_history_collection, sid, dbOk)
         IN lastRead' = [lastRead EXCEPT ![sid] =
                           [any |-> got, good |-> IF dbOk THEN got ELSE @.good]]
    /\ lastRead' # lastRead
    /\ UNCHANGED <<stores, now, tpc, tloc, taskRequests, lastClassify, failedSince,
                   overlapped, env>>
    /\ UNCHANGED ctxVars
    /\ UNCHANGED <<callVars, apiVars>>

\* Time passes.
Tick ==
    /\ now < MaxClock
    /\ now' = now + 1
    /\ UNCHANGED <<stores, tpc, tloc, taskRequests, lastClassify, failedSince,
                   readGhosts>>
    /\ UNCHANGED ctxVars
    /\ UNCHANGED <<callVars, apiVars>>

----------------------------------------------------------------------------
(* The OAuth installs and callbacks (app/api/github.py, app/api/slack.py)  *)

Services == {"github", "slack"}
Browsers == {"b1", "b2"}
UserIds == {"u1", "u2"}

\* The session keys of one service, pending_<service>_user_id and
\* <service>_state.  (auth_token, which install also sets, is read by neither
\* handler.)
NoState == -1                 \* no state: the key, or the query parameter, is missing

NoKeys == [user_id |-> None, state |-> NoState]

\* The session of a browser that sent no cookie.
EmptySession == [svc \in Services |-> NoKeys]

NoRequest == [route |-> "none"]

\* The token query parameter of an install: missing, not a valid JWT, or the
\* JWT of a user.
InstallTokens == {None, "invalid"} \cup UserIds

\* The state query parameter of a callback: missing, a value no install
\* generated (0), or a value an install may have generated.
StateParams == {NoState} \cup (0..MaxInstalls)

OAuthInit ==
    /\ cookie = [b \in Browsers |-> EmptySession]
    /\ oauth_tokens = [svc \in Services |-> [u \in UserIds |-> None]]
    /\ opc = [p \in Procs |-> "idle"]
    /\ oloc = [p \in Procs |-> NoRequest]
    /\ oauth_states = <<>>
    /\ callbacks = 0
    /\ stored = {}
    /\ succeeded = {}
    /\ acceptedAgain = FALSE

\* GET /<service>/install?token=...: the whole handler.  secrets.token_hex(8)
\* is a value no earlier install generated.  Without a valid JWT the answer is
\* a 401 that touches neither the session nor the database.
Install(p, svc, b, token) ==
    /\ opc[p] = "idle"
    /\ Len(oauth_states) < MaxInstalls
    /\ IF token \in UserIds
       THEN LET state == Len(oauth_states) + 1
            IN /\ oloc' = [oloc EXCEPT ![p] =
                             [route |-> "install", svc |-> svc, browser |-> b,
                              session |-> [cookie[b] EXCEPT ![svc] =
                                              [user_id |-> token, state |-> state]],
                              modified |-> TRUE, result |-> "redirect"]]
               /\ oauth_states' = Append(oauth_states,
                                         [svc |-> svc, browser |-> b, user_id |-> token])
               /\ opc' = [opc EXCEPT ![p] = "respond"]
       ELSE UNCHANGED <<oloc, oauth_states, opc>>
    /\ UNCHANGED <<cookie, oauth_tokens, callbacks, stored, succeeded, acceptedAgain>>
    /\ UNCHANGED <<ctxVars, taskVars, callVars, projVars, userVars>>

github_install(p, b, token) == Install(p, "github", b, token)

slack_install(p, b, token) == Install(p, "slack", b, token)

\* GET /github/callback, GET /slack/oauth_redirect, up to the token exchange:
\* the error, code, state and pending-user checks, on the session the request
\* carries.  A request that fails a check is answered with a redirect that
\* touches neither the session nor the database.
Callback(p, svc, b, code, error, state) ==
    /\ opc[p] = "idle"
    /\ callbacks < MaxCallbacks
    /\ callbacks' = callbacks + 1
    /\ LET session == cookie[b]
           user_id == session[svc].user_id
           result == IF error # None THEN error
                     ELSE IF code = None THEN "no_code"
                     ELSE IF state # session[svc].state THEN "invalid_state"
                     ELSE IF user_id = None THEN "session_expired"
                     ELSE "pending"
       IN IF result = "pending"
          THEN /\ oloc' = [oloc EXCEPT ![p] =
                             [route |-> "callback", svc |-> svc, browser |-> b,
                              session |-> session, modified |-> FALSE, result |-> result,
                              user_id |-> user_id, state |-> state]]
               /\ opc' = [opc EXCEPT ![p] = "exchange"]
               /\ acceptedAgain' = (acceptedAgain \/ <<svc, state>> \in succeeded)
          ELSE UNCHANGED <<oloc, opc, acceptedAgain>>
    /\ UNCHANGED <<cookie, oauth_tokens, oauth_states, stored, succeeded>>
    /\ UNCHANGED <<ctxVars, taskVars, callVars, projVars, userVars>>

github_callback(p, b, code, error, state) == Callback(p, "github", b, code, error, state)

slack_oauth_redirect(p, b, code, error, state) == Callback(p, "slack", b, code, error, state)

\* save_github_token / save_token, then the two session.pop calls.  A save
\* that raises is swallowed by the save function, and GitHub's update_one
\* without upsert matches no document of an unknown user: both store nothing
\* (saved = FALSE), and the handler goes on as after a save.
SaveAndClear(p, saved) ==
    LET loc == oloc[p]
    IN /\ IF saved
          THEN /\ oauth_tokens' = [oauth_tokens EXCEPT ![loc.svc][loc.user_id] = "token"]
               /\ stored' = stored \cup {[svc |-> loc.svc, user_id |-> loc.user_id,
                                          state |-> loc.state, browser |-> loc.browser]}
          ELSE UNCHANGED <<oauth_tokens, stored>>
       /\ oloc' = [oloc EXCEPT ![p].session = [@ EXCEPT ![loc.svc] = NoKeys],
                               ![p].modified = TRUE,
                               ![p].result = "connected"]
       /\ opc' = [opc EXCEPT ![p] = "respond"]

\* The handler's answer to a failure after the checks: a redirect, with the
\* session left as it came.
ExchangeFails(p) ==
    /\ oloc' = [oloc EXCEPT ![p] = NoRequest]
    /\ opc' = [opc EXCEPT ![p] = "idle"]
    /\ UNCHANGED <<oauth_tokens, stored>>

\* The answer to requests.post(token_url): it raises, it has no access token
\* (GitHub) or is not ok (Slack), it is ok without a team (Slack: KeyError), or
\* it grants a token.  Slack saves at once; GitHub asks for the user first.
TokenExchange(p) ==
    /\ opc[p] = "exchange"
    /\ \/ ExchangeFails(p)
       \/ /\ oloc[p].svc = "github"
          /\ opc' = [opc EXCEPT ![p] = "userinfo"]
          /\ UNCHANGED <<oloc, oauth_tokens, stored>>
       \/ /\ oloc[p].svc = "slack"
          /\ \E saved \in BOOLEAN : SaveAndClear(p, saved)
    /\ UNCHANGED <<cookie, oauth_states, callbacks, succeeded, acceptedAgain>>
    /\ UNCHANGED <<ctxVars, taskVars, callVars, projVars, userVars>>

\* The answer to requests.get(user_url) of github_callback: it raises, or the
\* token is saved.
UserInfo(p) ==
    /\ opc[p] = "userinfo"
    /\ \/ ExchangeFails(p)
       \/ \E saved \in BOOLEAN : SaveAndClear(p, saved)
    /\ UNCHANGED <<cookie, oauth_states, callbacks, succeeded, acceptedAgain>>
    /\ UNCHANGED <<ctxVars, taskVars, callVars, projVars, userVars>>

\* The response reaches the browser: a session the handler modified replaces
\* the browser's cookie, whole.
OAuthRespond(p) ==
    /\ opc[p] = "respond"
    /\ LET loc == oloc[p]
       IN /\ cookie' = IF loc.modified THEN [cookie EXCEPT ![loc.browser] = loc.session]
                       ELSE cookie
          /\ succeeded' = IF loc.route = "callback" /\ loc.result = "connected"
                          THEN succeeded \cup {<<loc.svc, loc.state>>}
                          ELSE succeeded
    /\ opc' = [opc EXCEPT ![p] = "idle"]
    /\ oloc' = [oloc EXCEPT ![p] = NoRequest]
    /\ UNCHANGED <<oauth_tokens, oauth_states, callbacks, stored, acceptedAgain>>
    /\ UNCHANGED <<ctxVars, taskVars, callVars, projVars, userVars>>

OAuthNext ==
    \E p \in Procs :
        \/ \E b \in Browsers, token \in InstallTokens : github_install(p, b, token)
        \/ \E b \in Browsers, token \in InstallTokens : slack_install(p, b, token)
        \/ \E b \in Browsers, code \in {None, "code"}, error \in {None, "access_denied"},
              state \in StateParams : github_callback(p, b, code, error, state)
        \/ \E b \in Browsers, code \in {None, "code"}, error \in {None, "access_denied"},
              state \in StateParams : slack_oauth_redirect(p, b, code, error, state)
        \/ TokenExchange(p)
        \/ UserInfo(p)
        \/ OAuthRespond(p)

----------------------------------------------------------------------------
(* Projects with their messages and tasks (app/database/mongodb.py,        *)
(* app/api/projects.py)                                                    *)

ProjectIds == {"p1", "p2"}

NoDelete == [project_id |-> None]

ProjInit ==
    /\ projects_collection = {}
    /\ messages_collection = [pid \in ProjectIds |-> 0]
    /\ tasks_collection = [pid \in ProjectIds |-> 0]
    /\ dpc = [p \in Procs |-> "idle"]
    /\ dloc = [p \in Procs |-> NoDelete]
    /\ deletes = 0

\* create_project: insert_one of a project document.
create_project(pid) ==
    /\ pid \notin projects_collection
    /\ projects_collection' = projects_collection \cup {pid}
    /\ UNCHANGED <<messages_collection, tasks_collection, dpc, dloc, deletes>>
    /\ UNCHANGED <<ctxVars, taskVars, callVars, oauthVars, userVars>>

\* save_message: insert_one of a message with this project_id; whether the
\* project exists is not looked at.
save_message(pid) ==
    /\ messages_collection[pid] < MaxDocs
    /\ messages_collection' = [messages_collection EXCEPT ![pid] = @ + 1]
    /\ UNCHANGED <<projects_collection, tasks_collection, dpc, dloc, deletes>>
    /\ UNCHANGED <<ctxVars, taskVars, callVars, oauthVars, userVars>>

\* create_tasks with one subtask: insert_one of a task with this project_id.
create_tasks(pid) ==
    /\ tasks_collection[pid] < MaxDocs
    /\ tasks_collection' = [tasks_collection EXCEPT ![pid] = @ + 1]
    /\ UNCHANGED <<projects_collection, messages_collection, dpc, dloc, deletes>>
    /\ UNCHANGED <<ctxVars, taskVars, callVars, oauthVars, userVars>>

\* DELETE /api/projects/<project_id> with a valid JWT: delete_project is called.
delete_project(p, project_id) ==
    /\ dpc[p] = "idle"
    /\ deletes < MaxDeletes
    /\ deletes' = deletes + 1
    /\ dloc' = [dloc EXCEPT ![p] = [project_id |-> project_id, messages |-> 0, tasks |-> 0,
                                    project |-> 0, success |-> FALSE]]
    /\ dpc' = [dpc EXCEPT ![p] = "messages"]
    /\ UNCHANGED <<projects_collection, messages_collection, tasks_collection>>
    /\ UNCHANGED <<ctxVars, taskVars, callVars, oauthVars, userVars>>

\* except Exception: return False.
DeleteRaises(p) ==
    /\ dloc' = [dloc EXCEPT ![p].success = FALSE]
    /\ dpc' = [dpc EXCEPT ![p] = "return"]

\* messages_collection.delete_many({"project_id": project_id}): done, or raises.
DeleteMessages(p) ==
    /\ dpc[p] = "messages"
    /\ \/ /\ messages_collection' = [messages_collection EXCEPT ![dloc[p].project_id] = 0]
          /\ dloc' = [dloc EXCEPT ![p].messages = messages_collection[dloc[p].project_id]]
          /\ dpc' = [dpc EXCEPT ![p] = "tasks"]
       \/ /\ DeleteRaises(p)
          /\ UNCHANGED messages_collection
    /\ UNCHANGED <<projects_collection, tasks_collection, deletes>>
    /\ UNCHANGED <<ctxVars, taskVars, callVars, oauthVars, userVars>>

\* tasks_collection.delete_many({"project_id": project_id}): done, or raises.
DeleteTasks(p) ==
    /\ dpc[p] = "tasks"
    /\ \/ /\ tasks_collection' = [tasks_collection EXCEPT ![dloc[p].project_id] = 0]
          /\ dloc' = [dloc EXCEPT ![p].tasks = tasks_collection[dloc[p].project_id]]
          /\ dpc' = [dpc EXCEPT ![p] = "project"]
       \/ /\ DeleteRaises(p)
          /\ UNCHANGED tasks_collection
    /\ UNCHANGED <<projects_collection, messages_collection, deletes>>
    /\ UNCHANGED <<ctxVars, taskVars, callVars, oauthVars, userVars>>

\* projects_collection.delete_one({"_id": ObjectId(project_id)}): True when a
\* document was deleted, False when none matched or the call raises.
DeleteProject(p) ==
    /\ dpc[p] = "project"
    /\ \/ LET found == dloc[p].project_id \in projects_collection
          IN /\ projects_collection' = projects_collection \ {dloc[p].project_id}
             /\ dloc' = [dloc EXCEPT ![p].project = IF found THEN 1 ELSE 0,
                                     ![p].success = found]
             /\ dpc' = [dpc EXCEPT ![p] = "return"]
       \/ /\ DeleteRaises(p)
          /\ UNCHANGED projects_collection
    /\ UNCHANGED <<messages_collection, tasks_collection, deletes>>
    /\ UNCHANGED <<ctxVars, taskVars, callVars, oauthVars, userVars>>

\* delete_project_route answers {"ok": true} or 404.
DeleteReturn(p) ==
    /\ dpc[p] = "return"
    /\ dpc' = [dpc EXCEPT ![p] = "idle"]
    /\ dloc' = [dloc EXCEPT ![p] = NoDelete]
    /\ UNCHANGED <<projects_collection, messages_collection, tasks_collection, deletes>>
    /\ UNCHANGED <<ctxVars, taskVars, callVars, oauthVars, userVars>>

ProjectsNext ==
    \/ \E pid \in ProjectIds : create_project(pid)
    \/ \E pid \in ProjectIds : save_message(pid)
    \/ \E pid \in ProjectIds : create_tasks(pid)
    \/ \E p \in Procs :
        \/ \E pid \in ProjectIds : delete_project(p, pid)
        \/ DeleteMessages(p)
        \/ DeleteTasks(p)
        \/ DeleteProject(p)
        \/ DeleteReturn(p)

----------------------------------------------------------------------------
(* Registration (app/api/auth.py)                                          *)

Emails == {"a@x.io", "b@x.io"}
Passwords == {"pw1", "pw2"}

NoRegister == [email |-> None]

\* The users collection after init_db: empty, with the unique index on email.
UserInit ==
    /\ users_collection = {}
    /\ rpc = [p \in Procs |-> "idle"]
    /\ rloc = [p \in Procs |-> NoRegister]
    /\ registers = 0

\* collection.find_one({"email": email}): the documents with this email, none
\* when find_one returns None.
find_one(collection, email) == {d \in collection : d.email = email}

DuplicateKey_NoUniqueIndex(collection, user) == FALSE

\* The unique index on email (init_db, get_users_collection): an insert of a
\* second document with an email the collection has is refused.
DuplicateKey(collection, user) == \E d \in collection : d.email = user.email

\* POST /auth/register up to insert_one: the 400 for a missing email or
\* password, the 400 for an email find_one finds, else the user document.
register(p, email, password) ==
    /\ rpc[p] = "idle"
    /\ registers < MaxRegisters
    /\ registers' = registers + 1
    /\ IF email = None \/ password = None
       THEN rloc' = [rloc EXCEPT ![p] = [email |-> email, status |-> 400, existed |-> FALSE]]
       ELSE IF find_one(users_collection, email) # {}
       THEN rloc' = [rloc EXCEPT ![p] = [email |-> email, status |-> 400, existed |-> TRUE]]
       ELSE rloc' = [rloc EXCEPT ![p] = [email |-> email, status |-> 0, existed |-> FALSE,
                                         user |-> [email |-> email, password |-> password]]]
    /\ rpc' = [rpc EXCEPT ![p] = IF email = None \/ password = None
                                    \/ find_one(users_collection, email) # {}
                                 THEN "return" ELSE "insert"]
    /\ UNCHANGED users_collection
    /\ UNCHANGED <<ctxVars, taskVars, callVars, oauthVars, projVars>>

\* collection.insert_one(user): the document is stored under a new _id, or the
\* call raises (DuplicateKeyError, or the database is unreachable) and Flask
\* answers 500.
InsertUser(p) ==
    /\ rpc[p] = "insert"
    /\ \/ /\ ~DuplicateKey(users_collection, rloc[p].user)
          /\ users_collection' = users_collection \cup
                {[_id |-> Cardinality(users_collection) + 1,
                  email |-> rloc[p].user.email, password |-> rloc[p].user.password]}
          /\ rloc' = [rloc EXCEPT ![p].status = 200]
       \/ /\ UNCHANGED users_collection
          /\ rloc' = [rloc EXCEPT ![p].status = 500,
                                  ![p].existed = DuplicateKey(users_collection, rloc[p].user)]
    /\ rpc' = [rpc EXCEPT ![p] = "return"]
    /\ UNCHANGED registers
    /\ UNCHANGED <<ctxVars, taskVars, callVars, oauthVars, projVars>>

\* The response is sent.
RegisterReturn(p) ==
    /\ rpc[p] = "return"
    /\ rpc' = [rpc EXCEPT ![p] = "idle"]
    /\ rloc' = [rloc EXCEPT ![p] = NoRegister]
    /\ UNCHANGED <<users_collection, registers>>
    /\ UNCHANGED <<ctxVars, taskVars, callVars, oauthVars, projVars>>

RegisterNext ==
    \E p \in Procs :
        \/ \E email \in Emails \cup {None}, password \in Passwords \cup {None} :
              register(p, email, password)
        \/ InsertUser(p)
        \/ RegisterReturn(p)

ApiInit == OAuthInit /\ ProjInit /\ UserInit

\* The classify / plan pipeline, the session map and the history.
TasksNext ==
    \E p \in Procs :
        \/ \E task \in env.tasks, sid \in CallerSids \cup {NoSid} :
              analyze_task_with_llm(p, task, sid, TRUE)
        \/ TypeDetection(p)
        \/ SearchCodebase(p)
        \/ ClarityAnalysis(p)
        \/ SaveHistory(p)
        \/ \E task \in env.plan_tasks, sid \in CallerSids \cup {NoSid} :
              generate_plan(p, task, sid)
        \/ PlanGeneration(p)
        \/ Respond(p)

\* One classification to its answer: from POST /analyze, which always has a
\* session id, or from a direct call without one.
ClassifyNext ==
    \E p \in Procs :
        \/ \E task \in env.tasks, sid \in CallerSids \cup {NoSid}, has_repo \in BOOLEAN,
              has_token \in BOOLEAN : analyze(p, task, sid, has_repo, has_token)
        \/ RepoStructure(p)
        \/ \E task \in env.tasks \ {NoTask}, has_repo \in BOOLEAN :
              analyze_task_with_llm(p, task, NoSid, has_repo)
        \/ TypeDetection(p)
        \/ SearchCodebase(p)
        \/ ClarityAnalysis(p)
        \/ SaveHistory(p)
        \/ Respond(p)

\* No invocation is in progress.
Quiet == \A q \in Procs : tpc[q] = "idle" /\ cpc[q] = "idle"

\* Every operation that calls the generative model, one invocation at a time:
\* classify and generatePlan without a session id, getDeepContext for one
\* repository.
OutboundNext ==
    \E p \in Procs :
        \/ Quiet /\ \E task \in env.tasks : analyze_task_with_llm(p, task, NoSid, TRUE)
        \/ TypeDetection(p)
        \/ SearchCodebase(p)
        \/ ClarityAnalysis(p)
        \/ Quiet /\ \E task \in env.plan_tasks : generate_plan(p, task, NoSid)
        \/ PlanGeneration(p)
        \/ Respond(p)
        \/ Quiet /\ create_deep_project_context(p, "o/r1")
        \/ CacheCheck(p)
        \/ FetchTreeMain(p)
        \/ FetchTreeMaster(p)
        \/ FetchReadme(p)
        \/ DeepAnalysis(p)
        \/ SaveAndReturn(p)

\* The durable history: its writers, its reader and the clock.
HistoryNext ==
    \/ \E p \in Procs :
        \/ \E task \in env.tasks, sid \in CallerSids :
              analyze_task_with_llm(p, task, sid, FALSE)
        \/ TypeDetection(p)
        \/ ClarityAnalysis(p)
        \/ SaveHistory(p)
        \/ \E task \in env.plan_tasks, sid \in CallerSids : generate_plan(p, task, sid)
        \/ PlanGeneration(p)
        \/ \E sid \in CallerSids : get_history(p, sid)
        \/ Respond(p)
    \/ Tick

NoCall == [fn |-> "none"]

InitTasks == CtxInit /\ TaskInit(EnvTasks) /\ call = NoCall /\ ApiInit
InitClassify == CtxInit /\ TaskInit(EnvClassify) /\ call = NoCall /\ ApiInit
InitHistory == CtxInit /\ TaskInit(EnvHistory) /\ call = NoCall /\ ApiInit
InitOutbound == CtxInit /\ TaskInit(EnvOutbound) /\ call = NoCall /\ ApiInit

----------------------------------------------------------------------------
(* Calls of parse_json_from_text *)

\* json.dumps without spaces: the text of a value
RECURSIVE Render(_)
RECURSIVE RenderElems(_)
RECURSIVE RenderMembers(_)
Render(v) ==
    IF v.t = "str" THEN <<QT>> \o v.s \o <<QT>>
    ELSE IF v.t = "arr" THEN <<"[">> \o RenderElems(v.e) \o <<"]">>
    ELSE <<"{">> \o RenderMembers(v.m) \o <<"}">>
RenderElems(e) ==
    IF e = <<>> THEN <<>>
    ELSE Render(e[1]) \o (IF Len(e) > 1 THEN <<",">> ELSE <<>>) \o RenderElems(Tail(e))
RenderMembers(m) ==
    IF m = <<>> THEN <<>>
    ELSE <<QT>> \o m[1][1] \o <<QT, ":">> \o Render(m[1][2])
         \o (IF Len(m) > 1 THEN <<",">> ELSE <<>>) \o RenderMembers(Tail(m))

\* the text of an object with `gap` put before its closing brace
RenderGap(obj, gap) == <<"{">> \o RenderMembers(obj.m) \o gap \o <<"}">>

StrContents == {<<>>, <<"x">>, <<",", "}">>, <<"{">>, <<"/", "/">>}
ArrX == JArr(<<JStr(<<"x">>)>>)
JsonObjects ==
    {JObj(<<>>), JObj(<<<< <<"k">>, JObj(<<>>) >>>>), JObj(<<<< <<"k">>, ArrX >>>>),
     JObj(<<<< <<"k">>, JStr(<<"x">>) >>, << <<"j">>, JStr(<<>>) >>>>)}
    \cup {JObj(<<<< <<"k">>, JStr(c) >>>>) : c \in StrContents}

\* Well-formed texts of the objects, and texts whose only defect is one
\* trailing comma before a closing "}" or "]".
JsonBodies ==
    {[text |-> RenderGap(o, gap), expect |-> o, defect |-> "none"] :
        o \in JsonObjects, gap \in {<<>>, <<" ">>}}
    \cup {[text |-> RenderGap(o, gap), expect |-> o, defect |-> "trailing comma"] :
            o \in JsonObjects \ {JObj(<<>>)}, gap \in {<<",">>, <<",", " ">>, <<",", "\n">>}}
    \cup {[text |-> <<"{", QT, "k", QT, ":", "[", QT, "x", QT, ",", "]", "}">>,
           expect |-> JObj(<<<< <<"k">>, ArrX >>>>), defect |-> "trailing comma"]}

PadChars == {"x", " ", "{", "}"}
Pads == UNION {[1..n -> PadChars] : n \in 0..MaxPad}

ExtractCalls ==
    {[fn |-> "parse_json_from_text", lead |-> lead, body |-> b, trail |-> trail,
      done |-> FALSE, out |-> NoCall, loads |-> <<>>] :
        lead \in Pads, b \in JsonBodies, trail \in Pads}

InitExtract == CtxInit /\ TaskInit(EnvTasks) /\ call \in ExtractCalls /\ ApiInit

\* The call returns or raises.
CallParseJson ==
    /\ call.fn = "parse_json_from_text" /\ ~call.done
    /\ call' = [call EXCEPT !.done = TRUE,
                            !.out = parse_json_from_text(call.lead \o call.body.text \o call.trail),
                            !.loads = Extract(call.lead \o call.body.text \o call.trail).loads]
    /\ UNCHANGED <<ctxVars, taskVars, apiVars>>

ExtractNext == CallParseJson

\* the characters of a text
Chars(text) == {text[i] : i \in 1..Len(text)}

\* C13 as stated: a well-formed JSON object in any leading and trailing text
\* is extracted exactly.
C13_ExtractIgnoresSurroundings ==
    call.fn = "parse_json_from_text" /\ call.done /\ call.body.defect = "none"
        => call.out = call.body.expect

\* C13 as the code has it: a well-formed JSON object is extracted exactly when
\* the text before it has no "{" and the text after it has no "}" (the span
\* taken runs from the first "{" of the whole text to its last "}").
C13_ExtractIgnoresBraceFreeSurroundings ==
    /\ call.fn = "parse_json_from_text" /\ call.done /\ call.body.defect = "none"
    /\ "{" \notin Chars(call.lead) /\ "}" \notin Chars(call.trail)
    => call.out = call.body.expect

\* C13 happens: an object with a nested object was extracted from between a
\* leading "}" and a trailing "{".
C13_Witness ==
    /\ call.fn = "parse_json_from_text" /\ call.done /\ call.body.defect = "none"
    /\ call.lead = <<"}">> /\ call.trail = <<"{">>
    /\ call.body.expect = JObj(<<<< <<"k">>, JObj(<<>>) >>>>)
    /\ call.out = call.body.expect

\* C14: for an object whose only defect is one trailing comma before a closing
\* "}" or "]", extract returns the object the text without the comma parses to.
C14_TrailingCommaRepaired ==
    /\ call.fn = "parse_json_from_text" /\ call.done
    /\ call.body.defect = "trailing comma"
    /\ call.lead = <<>> /\ call.trail = <<>>
    => call.out = call.body.expect


\* C22: extract makes at most two parse attempts on any input: a direct
\* parse, which on success returns with no repair applied, and otherwise one
\* re-parse after the trailing-comma repair and then the comment-stripping
\* repair have each been applied once; if the re-parse fails, extract fails
\* with an error that carries the position and message of the first failure.
C22_AtMostTwoParseAttempts ==
    call.fn = "parse_json_from_text" /\ call.done =>
        LET json_match == JsonMatch(call.lead \o call.body.text \o call.trail)
        IN /\ Len(call.loads) <= 2
           /\ ~json_match.found => call.loads = <<>> /\ call.out.t = "raise"
           /\ json_match.found =>
                LET first == json_loads(json_match.s)
                    repaired == StripBlockComments(StripLineComments(
                                    RemoveTrailingCommas(json_match.s)))
                    second == json_loads(repaired)
                IN IF first.t # "JSONDecodeError"
                   THEN call.loads = <<json_match.s>> /\ call.out = first
                   ELSE /\ call.loads = <<json_match.s, repaired>>
                        /\ IF second.t # "JSONDecodeError" THEN call.out = second
                           ELSE /\ call.out.t = "raise" /\ call.out.why = "Invalid JSON"
                                /\ call.out.e.pos = first.pos
                                /\ call.out.e.msg = first.msg

\* C22 happens: the direct parse failed at the trailing comma, the repaired
\* text failed elsewhere, and the error raised carries the first failure.
C22_Witness ==
    /\ call.fn = "parse_json_from_text" /\ call.done
    /\ call.body.defect = "trailing comma"
    /\ Len(call.loads) = 2 /\ call.loads[1] # call.loads[2]
    /\ call.out.t = "raise" /\ call.out.why = "Invalid JSON"
    /\ json_loads(call.loads[2]).t = "JSONDecodeError"
    /\ json_loads(call.loads[2]) # call.out.e
    /\ call.out.e.msg = "Expecting property name enclosed in double quotes"

----------------------------------------------------------------------------
(* Statements about classify, generatePlan and the history *)

IsPrefix(a, b) == Len(a) <= Len(b) /\ SubSeq(b, 1, Len(a)) = a

\* The task text is missing, empty or made of whitespace only.
IsBlank(task) == task = NoTask \/ \A i \in 1..Len(task) : task[i] \in Whitespace

\* Worker p holds the answer of a finished request of operation op.
Returned(p, op) == tpc[p] = "returned" /\ tloc[p].op = op

\* C4: when a model call of classify (type detection or clarity analysis)
\* fails, classify ends with an error, returns no Classification, and has
\* changed neither the session map nor the history.
C4_ModelFailureFailsClassify ==
    \A p \in Procs :
        Returned(p, "classify") /\ tloc[p].resp = "failed" =>
            /\ tloc[p].kind = "error"
            /\ tloc[p].value = NoAnalysis
            /\ ~tloc[p].wrote

\* C4 happens: a classify that issued a model call and got a failure has ended.
C4_Witness ==
    \E p \in Procs :
        /\ Returned(p, "classify") /\ tloc[p].resp = "failed"
        /\ tloc[p].outbound /\ tloc[p].kind = "error" /\ tloc[p].sid # NoSid

\* The session write of a successful classify with a session id: the entry of
\* that id becomes exactly the call's task and Classification, the other
\* entries stay; the Classification is what the call returns.
C5_SessionReplaced ==
    \A p \in Procs :
        /\ tpc[p] = "clarity" /\ tpc'[p] = "history" =>
              /\ task_sessions'[tloc[p].sid] =
                    [task |-> tloc[p].task, analysis |-> tloc'[p].result]
              /\ \A s \in Sids \ {tloc[p].sid} : task_sessions'[s] = task_sessions[s]
              /\ UNCHANGED conversation_history_collection
        /\ tpc[p] = "history" /\ tloc[p].op = "classify" /\ tpc'[p] = "returned" =>
              /\ tloc'[p].kind = "ok" /\ tloc'[p].value = tloc[p].result
              /\ UNCHANGED task_sessions

\* The entry a classify appends: prompt = task, analysis = the result, plan = null.
C5_Entry(p) ==
    /\ tloc[p].entry.prompt = tloc[p].task
    /\ tloc[p].entry.analysis = tloc[p].result
    /\ tloc[p].entry.plan = NoPlan

\* A classify without a session id changes neither store.
C5_NoSessionNoChange ==
    \A p \in Procs :
        tpc[p] = "clarity" /\ tloc[p].sid = NoSid /\ tpc'[p] # "clarity" =>
            /\ UNCHANGED <<task_sessions, conversation_history_collection>>
            /\ tpc'[p] = "returned"
            /\ ~tloc'[p].wrote

\* C5 as stated: a successful classify with a sessionId replaces the session
\* entry by the call's task and Classification and appends exactly one history
\* entry (prompt = task, analysis = result, plan = null); without a sessionId
\* neither store changes.
C5_ExactlyOneEntryAppended ==
    [][/\ C5_SessionReplaced
       /\ C5_NoSessionNoChange
       /\ \A p \in Procs :
            tpc[p] = "history" /\ tloc[p].op = "classify" /\ tpc'[p] = "returned" =>
               /\ C5_Entry(p)
               /\ conversation_history_collection' =
                    [conversation_history_collection EXCEPT
                        ![tloc[p].sid] = Append(@, tloc[p].entry)]]_vars

\* C5 as the code has it: a successful classify with a sessionId replaces the
\* session entry by the call's task and Classification and appends at most one
\* history entry (prompt = task, analysis = result, plan = null): exactly one
\* when the storage write succeeds, none when it fails; without a sessionId
\* neither store changes.
C5_AtMostOneEntryAppended ==
    [][/\ C5_SessionReplaced
       /\ C5_NoSessionNoChange
       /\ \A p \in Procs :
            tpc[p] = "history" /\ tloc[p].op = "classify" /\ tpc'[p] = "returned" =>
               /\ C5_Entry(p)
               /\ \/ conversation_history_collection' =
                       [conversation_history_collection EXCEPT
                           ![tloc[p].sid] = Append(@, tloc[p].entry)]
                  \/ UNCHANGED conversation_history_collection]_vars

\* C5 happens: a successful classify has replaced the entry an earlier classify
\* with another task left for the session, and its history entry is stored.
C5_Witness ==
    \E p \in Procs :
        /\ Returned(p, "classify") /\ tloc[p].kind = "ok" /\ tloc[p].sid # NoSid
        /\ tloc[p].wrote
        /\ task_sessions[tloc[p].sid] = [task |-> tloc[p].task, analysis |-> tloc[p].value]
        /\ LET h == conversation_history_collection[tloc[p].sid]
           IN /\ Len(h) = 2
              /\ h[1].prompt # tloc[p].task /\ h[1].plan = NoPlan
              /\ h[2].prompt = tloc[p].task /\ h[2].analysis = tloc[p].value

\* C6: generatePlan with a sessionId builds its prompt from the task_type and
\* the findings of the most recent successful classify of that id, whether or
\* not a classify of that id has failed since.
C6_PlanReadsLastSuccessfulClassify ==
    [][\A p \in Procs :
         /\ tpc[p] = "idle" /\ tpc'[p] = "plan"
         /\ tloc'[p].sid # NoSid /\ lastClassify[tloc'[p].sid] # NoAnalysis
         => /\ tloc'[p].task_type = lastClassify[tloc'[p].sid].task_type
            /\ tloc'[p].codebase_findings = lastClassify[tloc'[p].sid].codebase_findings]_vars

\* C6 happens: a generatePlan is under way for a session whose last classify
\* failed after an earlier one had succeeded with findings.
C6_Witness ==
    \E p \in Procs :
        /\ tpc[p] = "plan" /\ tloc[p].sid # NoSid
        /\ failedSince[tloc[p].sid]
        /\ lastClassify[tloc[p].sid] # NoAnalysis
        /\ tloc[p].task_type = "update"
        /\ tloc[p].codebase_findings # <<>>
        /\ \A q \in Procs \ {p} : tpc[q] = "idle"

\* C7: generatePlan without a sessionId, or with one that has no session
\* entry, uses task_type "new" and no findings, and an answer of the model
\* still gives the Plan extracted from it.
C7_SessionlessPlanDefaults ==
    \A p \in Procs :
        tloc[p].op = "plan" /\ ~tloc[p].session_found =>
            /\ tpc[p] \in {"plan", "history"} =>
                  tloc[p].task_type = "new" /\ tloc[p].codebase_findings = <<>>
            /\ tpc[p] = "returned" /\ tloc[p].resp = "ok" =>
                  /\ tloc[p].kind = "ok"
                  /\ tloc[p].value.plan \in Plans
                  /\ tloc[p].value.task_type = "new"
                  /\ tloc[p].value.codebase_findings = <<>>

\* C7 happens: a generatePlan for a session id that was never classified has
\* returned a Plan, while another session-less one is waiting for the model.
C7_Witness ==
    \E p \in Procs :
        /\ Returned(p, "plan") /\ tloc[p].kind = "ok"
        /\ tloc[p].sid # NoSid /\ ~tloc[p].session_found
        /\ tloc[p].value.plan \in Plans
        /\ \E q \in Procs \ {p} : tpc[q] = "plan" /\ tloc[q].sid = NoSid

\* No entry of a history is ever changed or removed.
C8_NothingRemoved ==
    \A s \in Sids :
        IsPrefix(conversation_history_collection[s], conversation_history_collection'[s])

\* C8 as stated: every append adds exactly one entry at the end of the
\* session's list, no entry is changed or removed, and a list read earlier is a
\* prefix of a list read later.
C8_AppendOnlyEveryAppendLands ==
    [][/\ \A p \in Procs :
            tpc[p] = "history" /\ tpc'[p] = "returned" =>
               conversation_history_collection' =
                  [conversation_history_collection EXCEPT
                      ![tloc[p].sid] = Append(@, tloc[p].entry)]
       /\ C8_NothingRemoved
       /\ \A s \in Sids : IsPrefix(lastRead[s].any, lastRead'[s].any)
       /\ \A s \in Sids : IsPrefix(lastRead'[s].any, conversation_history_collection'[s])]_vars

\* C8 as the code has it: an append adds its one entry at the end of the
\* session's list, or nothing when the storage write fails; no entry is changed
\* or removed; a list read successfully is a prefix of the stored list and of
\* every list read successfully later (a read that fails returns the empty list).
C8_AppendOnlyWhenStorageAnswers ==
    [][/\ \A p \in Procs :
            tpc[p] = "history" /\ tpc'[p] = "returned" =>
               \/ conversation_history_collection' =
                     [conversation_history_collection EXCEPT
                         ![tloc[p].sid] = Append(@, tloc[p].entry)]
               \/ UNCHANGED conversation_history_collection
       /\ C8_NothingRemoved
       /\ \A s \in Sids : IsPrefix(lastRead[s].good, lastRead'[s].good)
       /\ \A s \in Sids : IsPrefix(lastRead'[s].good, conversation_history_collection'[s])
       /\ \A s \in Sids : lastRead'[s].any \in {lastRead'[s].good, <<>>}]_vars

\* C8 happens: two entries were appended to a history and read back.
C8_Witness ==
    \E s \in Sids :
        /\ Len(conversation_history_collection[s]) = 2
        /\ lastRead[s].good = conversation_history_collection[s]
        /\ lastRead[s].any = lastRead[s].good
        /\ taskRequests = MaxHistoryRequests

\* C9: in every reachable state the entries of a session's history are in
\* strictly ascending timestamp order.
C9_TimestampsStrictlyAscending ==
    \A s \in Sids :
        LET h == conversation_history_collection[s]
        IN \A i \in 1..(Len(h) - 1) : h[i].timestamp < h[i + 1].timestamp

\* C10: a classify request (POST /analyze) whose task is missing, empty or
\* whitespace-only is rejected with a 400 before any outbound call, and has
\* changed neither the session map nor the history.
C10_BlankTaskRejectedFirst ==
    \A p \in Procs :
        tloc[p].route /\ tloc[p].op = "classify" /\ IsBlank(tloc[p].task) =>
            /\ tpc[p] = "returned"
            /\ tloc[p].kind = "400"
            /\ ~tloc[p].outbound
            /\ ~tloc[p].wrote
            /\ tloc[p].value = NoAnalysis

\* C10 happens: a request with a whitespace-only task has been rejected, the
\* stores being as they were.
C10_Witness ==
    \E p \in Procs :
        /\ Returned(p, "classify") /\ tloc[p].route
        /\ tloc[p].task = <<" ">> /\ tloc[p].kind = "400"
        /\ \A s \in Sids : task_sessions[s] = NoSession
        /\ \A s \in Sids : conversation_history_collection[s] = <<>>

\* The search gate of a classify in progress, from its locals.
GateOpen(loc) ==
    loc.task_type_info # NoInfo /\ loc.task_type_info.task_type \in {"update", "both"}
    /\ loc.has_repo

\* C11: within classify the keyword search runs only when the detected
\* task_type is update or both and owner and repo are both supplied; with the
\* gate closed no search is made and the Classification's codebase_findings is
\* the empty list.
C11_SearchOnlyThroughGate ==
    [][\A p \in Procs :
         /\ tpc'[p] = "search" => GateOpen(tloc'[p])
         /\ tpc[p] = "type_detection" /\ tpc'[p] = "clarity" =>
               ~GateOpen(tloc'[p]) /\ tloc'[p].codebase_findings = <<>>
         /\ tpc[p] = "clarity" /\ ~GateOpen(tloc[p]) =>
               /\ tpc'[p] = "history" => tloc'[p].result.codebase_findings = <<>>
               /\ tpc'[p] = "returned" /\ tloc'[p].kind = "ok" =>
                     tloc'[p].value.codebase_findings = <<>>]_vars

\* C11 happens: a classify with owner and repo supplied whose task_type is not
\* an update has made its Classification without a search.
C11_Witness ==
    \E p \in Procs :
        /\ tpc[p] = "history" /\ tloc[p].op = "classify" /\ tloc[p].has_repo
        /\ tloc[p].task_type_info.task_type = "new"
        /\ tloc[p].task_type_info.keywords # <<>>
        /\ tloc[p].result.codebase_findings = <<>>

\* C12: the prompt of the clarity call carries the no-evidence warning exactly
\* when the detected task_type is update or both and the findings are empty
\* (not when the task_type is new, nor when something was found).
C12_WarningIffUpdateWithoutEvidence ==
    \A p \in Procs :
        tpc[p] = "clarity" =>
            /\ tloc[p].clarity_prompt # NoPrompt
            /\ tloc[p].clarity_prompt.task = tloc[p].task
            /\ tloc[p].clarity_prompt.findings_text.kind = "warning"
                 <=> /\ tloc[p].task_type_info.task_type \in {"update", "both"}
                     /\ tloc[p].codebase_findings = <<>>

\* C12 happens: the search of an update task found nothing and the clarity
\* prompt has the warning.
C12_Witness ==
    \E p \in Procs :
        /\ tpc[p] = "clarity" /\ tloc[p].has_repo
        /\ tloc[p].task_type_info.task_type = "update"
        /\ tloc[p].task_type_info.keywords # <<>>
        /\ tloc[p].codebase_findings = <<>>
        /\ tloc[p].clarity_prompt.findings_text.kind = "warning"

----------------------------------------------------------------------------
(* Calls of search_codebase_for_keywords *)

KeywordNames == <<"k1", "k2", "k3", "k4", "k5">>
SixPaths == <<"f1", "f2", "f3", "f4", "f5", "f6">>
SearchAnswers ==
    {[kind |-> "200", items |-> <<>>], [kind |-> "200", items |-> <<"f1">>],
     [kind |-> "200", items |-> SixPaths],
     [kind |-> "status", items |-> <<>>], [kind |-> "raises", items |-> <<>>]}

\* the keyword lists: distinct keywords, and one that names a keyword twice
KeywordLists ==
    {Take(KeywordNames, n) : n \in 0..MaxKeywordsGiven} \cup {<<"k1", "k1", "k2">>}

SearchCalls ==
    {[fn |-> "search_codebase_for_keywords", keywords |-> k,
      answers |-> a, done |-> FALSE, out |-> <<>>, requests |-> <<>>] :
        k \in KeywordLists, a \in [1..KeywordLimit -> SearchAnswers]}

InitSearch == CtxInit /\ TaskInit(EnvTasks) /\ call \in SearchCalls /\ ApiInit

\* The call returns.
CallSearch ==
    /\ call.fn = "search_codebase_for_keywords" /\ ~call.done
    /\ call' = [call EXCEPT !.done = TRUE,
                            !.out = search_codebase_for_keywords(call.keywords, call.answers),
                            !.requests = SearchLoop(Take(call.keywords, KeywordLimit),
                                                    call.answers, <<>>).requests]
    /\ UNCHANGED <<ctxVars, taskVars, apiVars>>

SearchNext == CallSearch

\* The number of keywords a call sends requests for.
Searched(c) == IF Len(c.keywords) < 3 THEN Len(c.keywords) ELSE 3

\* The hits of the first n keywords that got a 200 answer, in keyword order.
RECURSIVE HitsUpTo(_, _)
HitsUpTo(c, n) ==
    IF n = 0 THEN <<>>
    ELSE HitsUpTo(c, n - 1)
         \o (IF c.answers[n].kind = "200"
             THEN [i \in 1..(IF Len(c.answers[n].items) < 5 THEN Len(c.answers[n].items) ELSE 5)
                     |-> [file |-> c.answers[n].items[i], keyword |-> c.keywords[n]]]
             ELSE <<>>)

SearchDone == call.fn = "search_codebase_for_keywords" /\ call.done
SearchRaised(c) == \E n \in 1..Searched(c) : c.answers[n].kind = "raises"

RECURSIVE GroupStart(_, _)
GroupStart(lens, n) == IF n <= 1 THEN 0 ELSE GroupStart(lens, n - 1) + lens[n - 1]

\* C23: searchKeywords issues at most one search call for each of the first 3
\* keywords, in their order, and none for a 4th or later keyword; it returns at
\* most 5 hits per searched keyword, grouped in keyword order, so the result
\* never has more than 15 entries.
C23_AtMostThreeCallsFiveHitsEach ==
    SearchDone =>
        /\ Len(call.requests) <= 3
        /\ IsPrefix(call.requests, call.keywords)
        /\ Len(call.out) <= 15
        /\ \E lens \in [1..Len(call.requests) -> 0..5] :
              /\ Len(call.out) = GroupStart(lens, Len(call.requests) + 1)
              /\ \A n \in 1..Len(call.requests) : \A i \in 1..lens[n] :
                    call.out[GroupStart(lens, n) + i].keyword = call.requests[n]

\* C23 happens: four keywords were given, each search call found six files,
\* and fifteen entries came back, none for the fourth keyword.
C23_Witness ==
    /\ SearchDone /\ Len(call.keywords) = 4
    /\ \A n \in 1..3 : call.answers[n] = [kind |-> "200", items |-> SixPaths]
    /\ call.requests = <<"k1", "k2", "k3">>
    /\ Len(call.out) = 15
    /\ call.out[5].keyword = "k1" /\ call.out[6].keyword = "k2"

\* C16: when the fresh deep analysis has succeeded and the cache write stores
\* nothing, getDeepContext still returns the freshly computed context.
C16_CacheWriteFailureSwallowed ==
    [][\A p \in Procs :
         cpc[p] = "save" /\ cpc'[p] # "save" =>
            /\ cret'[p].kind = "ok"
            /\ cret'[p].repo = cloc[p].repo
            /\ cret'[p].context = cloc[p].project_context
            /\ cloc[p].project_context \in Contexts]_vars

\* C16 happens: a call has returned the context of a fresh analysis while the
\* cache holds nothing for its repository.
C16_Witness ==
    \E p \in Procs :
        /\ cpc[p] = "idle" /\ cret[p].kind = "ok"
        /\ cret[p].context \in Contexts
        /\ modelCalls[cret[p].repo] = 1
        /\ repo_context_collection[cret[p].repo] = NoDoc

\* C17: a failed history append neither fails nor rolls back the operation
\* that made it: classify keeps its session write and returns its
\* Classification, generatePlan returns its Plan.
C17_HistoryFailureSwallowed ==
    [][\A p \in Procs :
         /\ tpc[p] = "history" /\ tpc'[p] = "returned"
         /\ UNCHANGED conversation_history_collection
         => /\ tloc'[p].kind = "ok"
            /\ UNCHANGED task_sessions
            /\ tloc[p].op = "classify" =>
                  tloc'[p].value = tloc[p].result
            /\ tloc[p].op = "plan" =>
                  tloc'[p].value.plan = tloc[p].plan /\ tloc[p].plan \in Plans]_vars

\* C17 happens: a classify has returned its Classification and its session
\* entry is in place, while its history entry was not stored.
C17_Witness ==
    \E p \in Procs :
        /\ Returned(p, "classify") /\ tloc[p].kind = "ok" /\ tloc[p].sid # NoSid
        /\ conversation_history_collection[tloc[p].sid] = <<>>
        /\ task_sessions[tloc[p].sid] = [task |-> tloc[p].task, analysis |-> tloc[p].value]
        /\ \E q \in Procs \ {p} :
             /\ Returned(q, "plan") /\ tloc[q].kind = "ok" /\ tloc[q].sid = tloc[p].sid
             /\ tloc[q].value.plan \in Plans

\* What a generatePlan does to the history apart from the append itself: its
\* entry has prompt = task, analysis = null and plan = the Plan it returns; a
\* generatePlan that fails, or has no sessionId, appends nothing.
C18_PlanEntry ==
    \A p \in Procs :
        /\ tpc[p] = "history" /\ tloc[p].op = "plan" /\ tpc'[p] = "returned" =>
              /\ tloc[p].sid # NoSid
              /\ tloc[p].entry.prompt = tloc[p].task
              /\ tloc[p].entry.analysis = NoAnalysis
              /\ tloc'[p].kind = "ok" /\ tloc[p].entry.plan = tloc'[p].value.plan
              /\ \A s \in Sids \ {tloc[p].sid} :
                    conversation_history_collection'[s] = conversation_history_collection[s]
        /\ tpc[p] = "plan" /\ tpc'[p] # "plan" =>
              /\ UNCHANGED conversation_history_collection
              /\ tpc'[p] = "history" <=> tloc'[p].resp = "ok" /\ tloc[p].sid # NoSid

\* C18 as stated: a generatePlan that succeeds with a sessionId appends exactly
\* one history entry (prompt = task, analysis = null, plan = the returned Plan)
\* for that id; one that fails or has no sessionId appends none.
C18_ExactlyOnePlanEntry ==
    [][/\ C18_PlanEntry
       /\ \A p \in Procs :
            tpc[p] = "history" /\ tloc[p].op = "plan" /\ tpc'[p] = "returned" =>
               conversation_history_collection'[tloc[p].sid] =
                  Append(conversation_history_collection[tloc[p].sid], tloc[p].entry)]_vars

\* C18 as the code has it: a generatePlan that succeeds with a sessionId
\* appends at most one history entry (prompt = task, analysis = null, plan =
\* the returned Plan) for that id: exactly one when the storage write
\* succeeds, none when it fails; one that fails or has no sessionId appends none.
C18_AtMostOnePlanEntry ==
    [][/\ C18_PlanEntry
       /\ \A p \in Procs :
            tpc[p] = "history" /\ tloc[p].op = "plan" /\ tpc'[p] = "returned" =>
               \/ conversation_history_collection'[tloc[p].sid] =
                     Append(conversation_history_collection[tloc[p].sid], tloc[p].entry)
               \/ UNCHANGED conversation_history_collection]_vars

\* C18 happens: a generatePlan with a sessionId has returned its Plan and the
\* history of the session ends with its entry, after the entry of a classify.
C18_Witness ==
    \E p \in Procs :
        /\ Returned(p, "plan") /\ tloc[p].kind = "ok" /\ tloc[p].sid # NoSid
        /\ LET h == conversation_history_collection[tloc[p].sid]
           IN /\ Len(h) = 2
              /\ h[1].plan = NoPlan
              /\ h[2].plan = tloc[p].value.plan /\ h[2].plan \in Plans
              /\ h[2].prompt = tloc[p].task /\ h[2].analysis = NoAnalysis

\* C19: when classify calls for the same sessionId run concurrently, every
\* write of the session entry puts the complete (task, classification) pair of
\* the writing call, and nothing else changes an entry: the entry is the pair
\* of the call that wrote last, never a mixture of fields of two calls.
C19_EntryIsPairOfLastWriter ==
    [][/\ \A p \in Procs :
            tpc[p] = "clarity" /\ tpc'[p] = "history" =>
               task_sessions'[tloc[p].sid] =
                  [task |-> tloc[p].task, analysis |-> tloc'[p].result]
       /\ \A s \in Sids :
            task_sessions'[s] # task_sessions[s] =>
               \E p \in Procs :
                  /\ tpc[p] = "clarity" /\ tpc'[p] = "history" /\ tloc[p].sid = s
                  /\ task_sessions'[s] =
                        [task |-> tloc[p].task, analysis |-> tloc'[p].result]]_vars

\* C19 happens: two classify calls of one session with different tasks are in
\* flight together, both have written the entry, and the entry is the pair of
\* one of them.
C19_Witness ==
    \E p, q \in Procs :
        /\ p # q
        /\ tpc[p] = "history" /\ tpc[q] = "history"
        /\ tloc[p].op = "classify" /\ tloc[q].op = "classify"
        /\ tloc[p].sid = tloc[q].sid /\ tloc[p].task # tloc[q].task
        /\ task_sessions[tloc[q].sid] = [task |-> tloc[q].task, analysis |-> tloc[q].result]

\* C20: every Classification that classify returns or stores in the session
\* map has task_type in {new, update, both} and status in {clear, ambiguous},
\* whatever the model answered.
C20_ClassificationInEnums ==
    /\ \A p \in Procs :
          Returned(p, "classify") /\ tloc[p].kind = "ok" =>
             /\ tloc[p].value.task_type \in {"new", "update", "both"}
             /\ tloc[p].value.status \in {"clear", "ambiguous"}
    /\ \A s \in Sids :
          task_sessions[s] # NoSession =>
             /\ task_sessions[s].analysis.task_type \in {"new", "update", "both"}
             /\ task_sessions[s].analysis.status \in {"clear", "ambiguous"}

\* Worker p issues the outbound call of `step` in this step of its request.
Issues(p, step) == tloc'[p].issued = Append(tloc[p].issued, step)

\* The orders in which one classify can have issued its steps.
ClassifyOrders ==
    {<<>>, <<"type_detection">>, <<"type_detection", "search">>,
     <<"type_detection", "clarity">>, <<"type_detection", "search", "clarity">>}

\* C21: within one classify call the steps run strictly in the order type
\* detection, keyword search (when the gate is open), clarity analysis: the
\* search is issued only after type detection returned a parsed result, the
\* clarity call only after the search finished, and the clarity call is never
\* issued when type detection failed.
C21_StepsStrictlyOrdered ==
    [][\A p \in Procs :
         /\ tloc'[p].op = "classify" => tloc'[p].issued \in ClassifyOrders
         /\ Issues(p, "search") =>
               /\ tloc[p].issued = <<"type_detection">>
               /\ tloc[p].resp = "ok" /\ tloc[p].task_type_info # NoInfo
         /\ Issues(p, "clarity") =>
               /\ tloc[p].resp = "ok" /\ tloc[p].task_type_info # NoInfo
               /\ GateOpen(tloc[p]) =>
                     /\ tloc[p].issued = <<"type_detection", "search">>
                     /\ tloc[p].clarity_prompt =
                           ClarityPrompt(tloc[p].task, tloc[p].task_type_info.task_type,
                                         tloc[p].codebase_findings)
         /\ Issues(p, "type_detection") /\ tloc'[p].resp = "failed" =>
               /\ tpc'[p] = "returned" /\ tloc'[p].kind = "error"
               /\ tloc'[p].issued = <<"type_detection">>]_vars

\* C21 happens: a classify with the gate open has issued type detection, the
\* search and the clarity call, in that order, and holds its Classification.
C21_Witness ==
    \E p \in Procs :
        /\ Returned(p, "classify") /\ tloc[p].kind = "ok"
        /\ tloc[p].issued = <<"type_detection", "search", "clarity">>
        /\ tloc[p].value.codebase_findings # <<>>

\* The model calls among the steps a request has issued.
ModelCallsOf(issued) ==
    Cardinality({i \in DOMAIN issued : issued[i] \in {"type_detection", "clarity", "plan"}})

\* C24: the core never retries an outbound call: one classify issues at most
\* two model calls, one generatePlan at most one, one getDeepContext at most
\* one, and a call that failed is never reissued within the same invocation:
\* no step is issued twice, and the invocation ends with the failure.
C24_NoRetry ==
    \A p \in Procs :
        /\ tloc[p].op = "classify" => ModelCallsOf(tloc[p].issued) <= 2
        /\ tloc[p].op = "plan" =>
              ModelCallsOf(tloc[p].issued) <= 1 /\ Len(tloc[p].issued) <= 1
        /\ \A i, j \in DOMAIN tloc[p].issued : tloc[p].issued[i] = tloc[p].issued[j] => i = j
        /\ tloc[p].resp = "failed" => tpc[p] = "returned" /\ tloc[p].kind = "error"
        /\ cloc[p].model_calls <= 1
        /\ cloc[p].model_calls = 1 => cpc[p] \in {"save", "idle"}
        /\ cloc[p].model_calls = 1 /\ cpc[p] = "idle" /\ cloc[p].project_context = None =>
              cret[p].kind = "error"

\* C24 happens: the model call of a getDeepContext has failed and the call has
\* ended with the error; after it the clarity call of a classify has failed,
\* two model calls made, and the classify has ended with the error.
C24_Witness ==
    \E p, q \in Procs :
        /\ Returned(p, "classify") /\ tloc[p].kind = "error" /\ tloc[p].resp = "failed"
        /\ tloc[p].issued = <<"type_detection", "search", "clarity">>
        /\ cpc[q] = "idle" /\ cret[q].kind = "error" /\ cloc[q].model_calls = 1

\* C25: generatePlan never modifies the session store: whatever its input,
\* and whether it succeeds or fails, no step of a generatePlan changes the set
\* of session ids or any session's task or classification.
C25_PlanLeavesSessionsAlone ==
    [][\A p \in Procs :
         tpc'[p] # tpc[p] /\ (tloc[p].op = "plan" \/ tloc'[p].op = "plan")
            => UNCHANGED task_sessions]_vars

\* C25 happens: a generatePlan for a session a classify had stored has
\* returned its Plan, and the session holds the classify's task and result.
C25_Witness ==
    \E p \in Procs :
        /\ Returned(p, "plan") /\ tloc[p].kind = "ok" /\ tloc[p].session_found
        /\ tloc[p].value.plan \in Plans
        /\ lastClassify[tloc[p].sid] # NoAnalysis
        /\ task_sessions[tloc[p].sid] =
              [task |-> <<"a">>, analysis |-> lastClassify[tloc[p].sid]]

\* C26: in getDeepContext on a cache miss, a failed README fetch yields an
\* empty README and a failed fetch of the main-branch file tree falls back to
\* master; neither failure makes getDeepContext fail.
C26_FetchFailuresTolerated ==
    [][\A p \in Procs :
         /\ cpc[p] = "tree_main" /\ cpc'[p] # "tree_main" =>
               cpc'[p] \in {"readme", "tree_master"}
         /\ cpc[p] = "readme" /\ cpc'[p] # "readme" =>
               /\ cpc'[p] = "gemini"
               /\ cloc'[p].readme_content \in Readmes \cup {""}]_vars

\* C27: the Classification classify returns (and stores) always carries the
\* task_type and keywords of the type-detection step and the codebase_findings
\* of the keyword search, even when the clarity answer has keys of those names.
C27_TypeDetectionFieldsWin ==
    [][\A p \in Procs :
         tpc[p] = "clarity" /\ tpc'[p] \in {"history", "returned"}
         /\ tloc'[p].resp = "ok" =>
            LET result == IF tpc'[p] = "history" THEN tloc'[p].result ELSE tloc'[p].value
            IN /\ result.task_type = tloc[p].task_type_info.task_type
               /\ result.keywords = tloc[p].task_type_info.keywords
               /\ result.codebase_findings = tloc[p].codebase_findings
               /\ tloc[p].sid # NoSid =>
                     task_sessions'[tloc[p].sid].analysis = result]_vars

\* C27 happens: the clarity answer (the ambiguous one) had a task_type,
\* keywords and findings of its own, and the Classification returned carries
\* those of the type detection and the search.
C27_Witness ==
    \E p \in Procs :
        /\ Returned(p, "classify") /\ tloc[p].kind = "ok"
        /\ tloc[p].value.status = "ambiguous"
        /\ tloc[p].value.task_type = "update"
        /\ tloc[p].value.keywords = <<"k1">>
        /\ tloc[p].value.codebase_findings = <<Finding("k1")>>

----------------------------------------------------------------------------
(* Statements about the OAuth callbacks *)

\* Every token save was made for a state that an install generated, for the
\* service, in the browser and for the user id of that install.
StoredOnlyForItsInstall ==
    \A s \in stored :
        /\ s.state \in 1..Len(oauth_states)
        /\ oauth_states[s.state] = [svc |-> s.svc, browser |-> s.browser, user_id |-> s.user_id]

\* C28: an OAuth callback stores an access token only when its state is the
\* state the install step stored in the same browser session, and only for the
\* user id that install recorded; a mismatched state or a missing pending user
\* id stores nothing; and once a callback has succeeded, its state is not
\* accepted again.
C28_StateAcceptedOnceForItsInstall ==
    /\ StoredOnlyForItsInstall
    /\ ~acceptedAgain

----------------------------------------------------------------------------
(* Statements about delete_project and register *)

\* C29: delete_project is all-or-nothing: when it returns True the project
\* and all of its messages and tasks are gone, and when it returns False it
\* has deleted no project, no message and no task.
C29_DeleteIsAllOrNothing ==
    \A p \in Procs :
        dpc[p] = "return" =>
            IF dloc[p].success
            THEN /\ dloc[p].project_id \notin projects_collection
                 /\ messages_collection[dloc[p].project_id] = 0
                 /\ tasks_collection[dloc[p].project_id] = 0
            ELSE /\ dloc[p].messages = 0
                 /\ dloc[p].tasks = 0
                 /\ dloc[p].project = 0

\* No two user documents have the same email.
UniqueEmails ==
    \A d1, d2 \in users_collection : d1.email = d2.email => d1 = d2

\* C30: no two user records ever share an email, also when register requests
\* for one email run concurrently, and no step of a register request changes
\* or removes a user document that exists.
C30_EmailsStayUnique ==
    [][/\ UniqueEmails'
       /\ \A d \in users_collection : d \in users_collection']_vars

\* Two register requests for one email both passed find_one; one inserted and
\* the other was refused by the unique index.
C30_Witness ==
    \E p \in Procs :
        /\ rpc[p] = "return"
        /\ rloc[p].status = 500
        /\ rloc[p].existed
        /\ \E d \in users_collection : d.email = rloc[p].email

----------------------------------------------------------------------------
SpecContext == InitTasks /\ [][CtxNext]_vars

SpecTasks == InitTasks /\ [][TasksNext]_vars

SpecClassify == InitClassify /\ [][ClassifyNext]_vars

SpecHistory == InitHistory /\ [][HistoryNext]_vars

SpecExtract == InitExtract /\ [][ExtractNext]_vars

SpecSearch == InitSearch /\ [][SearchNext]_vars

SpecOutbound == InitOutbound /\ [][OutboundNext]_vars

SpecOAuth == InitTasks /\ [][OAuthNext]_vars

SpecProjects == InitTasks /\ [][ProjectsNext]_vars

SpecRegister == InitTasks /\ [][RegisterNext]_vars

====
